---------------------------- MODULE Spec2Model ----------------------------
(***************************************************************************)
(* A model of f5-corkscrew's universal TMOS parser (parseConfig and its    *)
(* helpers), of the dependency resolvers built on the parsed tree          *)
(* (digVsConfig, DigGslb.fqdns, pathValueFromKey) and of the multi-source  *)
(* entry points (BigipConfig.parseConf / loadParseAsync, parseConfigs).    *)
(*                                                                         *)
(* Representation.  A JavaScript string is a sequence of one-character     *)
(* strings, so that trim, split, includes, the regular expressions and the *)
(* per-character brace counting of the source are computed, not assumed.   *)
(* A JavaScript object is an ordered map: a sequence of [k, v] entries in  *)
(* property order.  A parsed value is tagged: "str" (string), "arr"        *)
(* (string list) or "map" (object).                                        *)
(***************************************************************************)
EXTENDS Integers, Sequences, FiniteSets, TLC

\* const name = value, in scope in Body: With(value, LAMBDA name : Body)
With(value, Body(_)) == Body(value)

(***************************************************************************)
(* String primitives of the JavaScript runtime                             *)
(***************************************************************************)
IsWs(c) == c \in {" ", "\n", "\r", "\t"}

IsPrefixAt(s, p, i) ==
    /\ i + Len(p) - 1 <= Len(s)
    /\ \A j \in 1..Len(p) : s[i + j - 1] = p[j]

StartsWith(s, p) == IsPrefixAt(s, p, 1)

EndsWith(s, p) == Len(p) <= Len(s) /\ IsPrefixAt(s, p, Len(s) - Len(p) + 1)

Includes(s, p) == \E i \in 1..(Len(s) + 1) : IsPrefixAt(s, p, i)

\* index of the first occurrence of p in s at or after position from, 0 if none
IndexFrom(s, p, from) ==
    IF \E i \in from..Len(s) : IsPrefixAt(s, p, i)
    THEN CHOOSE i \in from..Len(s) :
            IsPrefixAt(s, p, i) /\ \A j \in from..(i - 1) : ~IsPrefixAt(s, p, j)
    ELSE 0

IndexOf(s, p) == IndexFrom(s, p, 1)

\* String.prototype.slice(a, b) with 1-based inclusive-first, exclusive-last
Slice(s, first, last) == SubSeq(s, first, last - 1)

TrimStart(s) ==
    IF \E i \in 1..Len(s) : ~IsWs(s[i])
    THEN SubSeq(s, CHOOSE i \in 1..Len(s) :
                      ~IsWs(s[i]) /\ \A j \in 1..(i - 1) : IsWs(s[j]), Len(s))
    ELSE <<>>

TrimEnd(s) ==
    IF \E i \in 1..Len(s) : ~IsWs(s[i])
    THEN SubSeq(s, 1, CHOOSE i \in 1..Len(s) :
                      ~IsWs(s[i]) /\ \A j \in (i + 1)..Len(s) : IsWs(s[j]))
    ELSE <<>>

Trim(s) == TrimEnd(TrimStart(s))

\* String.prototype.split(c) for a one-character separator
RECURSIVE Split(_, _)
Split(s, c) ==
    IF \E i \in 1..Len(s) : s[i] = c
    THEN LET i == CHOOSE i \in 1..Len(s) : s[i] = c /\ \A j \in 1..(i - 1) : s[j] # c
         IN  <<SubSeq(s, 1, i - 1)>> \o Split(SubSeq(s, i + 1, Len(s)), c)
    ELSE <<s>>

\* Array.prototype.join(sep)
RECURSIVE Join(_, _)
Join(ss, sep) ==
    IF ss = <<>> THEN <<>>
    ELSE IF Len(ss) = 1 THEN ss[1]
    ELSE ss[1] \o sep \o Join(Tail(ss), sep)

\* split(/\s+/).filter(Boolean): the maximal runs of non-whitespace
RECURSIVE Tokens(_)
Tokens(s) ==
    With(TrimStart(s), LAMBDA t :
    IF t = <<>> THEN <<>>
    ELSE IF \E i \in 1..Len(t) : IsWs(t[i])
         THEN With(CHOOSE i \in 1..Len(t) : IsWs(t[i]) /\ \A j \in 1..(i - 1) : ~IsWs(t[j]),
                   LAMBDA i : <<SubSeq(t, 1, i - 1)>> \o Tokens(SubSeq(t, i, Len(t))))
         ELSE <<t>>)

\* the number of occurrences of character c in s
RECURSIVE CountCharFrom(_, _, _)
CountCharFrom(s, c, i) ==
    IF i > Len(s) THEN 0
    ELSE (IF s[i] = c THEN 1 ELSE 0) + CountCharFrom(s, c, i + 1)

(***************************************************************************)
(* Objects as ordered maps.  Property order is JavaScript's: canonical     *)
(* array-index keys first in ascending numeric order, then the other keys  *)
(* in insertion order.                                                     *)
(***************************************************************************)
Digits == <<"0", "1", "2", "3", "4", "5", "6", "7", "8", "9">>

IsDigit(c) == \E d \in 1..10 : Digits[d] = c

DigitVal(c) == (CHOOSE d \in 1..10 : Digits[d] = c) - 1

IsIndexKey(k) ==
    /\ Len(k) >= 1
    /\ \A i \in 1..Len(k) : IsDigit(k[i])
    /\ (Len(k) = 1 \/ k[1] # "0")

RECURSIVE NumVal(_)
NumVal(k) == IF k = <<>> THEN 0 ELSE NumVal(SubSeq(k, 1, Len(k) - 1)) * 10 + DigitVal(k[Len(k)])

VStr(s) == [t |-> "str", s |-> s]
VArr(a) == [t |-> "arr", a |-> a]
VMap(m) == [t |-> "map", m |-> m]

EmptyMap == VMap(<<>>)

IsMap(v) == v.t = "map"
IsArr(v) == v.t = "arr"
IsStr(v) == v.t = "str"

\* entries are [k |-> key, v |-> value]
Has(m, k) == \E i \in 1..Len(m) : m[i].k = k

Get(m, k) == m[CHOOSE i \in 1..Len(m) : m[i].k = k].v

Keys(m) == [i \in 1..Len(m) |-> m[i].k]

Del(m, k) == SelectSeq(m, LAMBDA e : e.k # k)

\* obj[k] = v
Put(m, k, v) ==
    IF Has(m, k)
    THEN [i \in 1..Len(m) |-> IF m[i].k = k THEN [k |-> k, v |-> v] ELSE m[i]]
    ELSE IF IsIndexKey(k)
         THEN LET before == {i \in 1..Len(m) : IsIndexKey(m[i].k) /\ NumVal(m[i].k) < NumVal(k)}
                  n == Cardinality(before)
              IN  SubSeq(m, 1, n) \o <<[k |-> k, v |-> v]>> \o SubSeq(m, n + 1, Len(m))
         ELSE Append(m, [k |-> k, v |-> v])

\* Object.assign(target, source) / { ...target, ...source }
RECURSIVE Assign(_, _)
Assign(m, src) ==
    IF src = <<>> THEN m ELSE Assign(Put(m, Head(src).k, Head(src).v), Tail(src))


Min(a, b) == IF a < b THEN a ELSE b

\* String(n) for a natural number
RECURSIVE NatToStr(_)
NatToStr(n) == IF n < 10 THEN <<Digits[n + 1]>> ELSE NatToStr(n \div 10) \o <<Digits[(n % 10) + 1]>>

(***************************************************************************)
(* The universal parser: line helpers                                      *)
(***************************************************************************)
isRule(str) ==
    \/ Includes(str, <<"l", "t", "m", " ", "r", "u", "l", "e">>)
    \/ Includes(str, <<"g", "t", "m", " ", "r", "u", "l", "e">>)
    \/ Includes(str, <<"p", "e", "m", " ", "i", "r", "u", "l", "e">>)

countChar(str, char) == CountCharFrom(str, char, 1)

countIndent(line) ==
    IF \E i \in 1..Len(line) : line[i] # " "
    THEN (CHOOSE i \in 1..Len(line) : line[i] # " " /\ \A j \in 1..(i - 1) : line[j] = " ") - 1
    ELSE Len(line)

removeIndentLine(line) == IF StartsWith(line, <<" ", " ", " ", " ">>) THEN SubSeq(line, 5, Len(line)) ELSE line

removeIndent(arr) == [i \in 1..Len(arr) |-> removeIndentLine(arr[i])]

\* u matches /^\s?\{\s?}?$/
TitleTail(u) ==
    With(IF u # <<>> /\ IsWs(u[1]) THEN Tail(u) ELSE u, LAMBDA a :
    With(IF a # <<>> /\ a[1] = "{" THEN Tail(a) ELSE <<"!">>, LAMBDA b :
    With(IF b # <<>> /\ IsWs(b[1]) THEN Tail(b) ELSE b, LAMBDA c :
    (IF c # <<>> /\ c[1] = "}" THEN Tail(c) ELSE c) = <<>>)))

\* str.replace(/\s?\{\s?}?$/, '').trim()
getTitle(str) ==
    IF \E i \in 1..Len(str) : TitleTail(SubSeq(str, i, Len(str)))
    THEN LET i == CHOOSE i \in 1..Len(str) :
                      /\ TitleTail(SubSeq(str, i, Len(str)))
                      /\ \A j \in 1..(i - 1) : ~TitleTail(SubSeq(str, j, Len(str)))
         IN  Trim(SubSeq(str, 1, i - 1))
    ELSE Trim(str)

\* the single property { [key]: rest } of a "key rest of line" string
strToObj(line) ==
    LET split == Split(Trim(line), " ")
    IN  [k |-> Head(split), v |-> VStr(Join(Tail(split), <<" ">>))]

\* the text between the braces kept as one string, not split at whitespace
objToArrUnsplit(line) ==
    IF IndexOf(line, <<"{">>) = 0 \/ IndexFrom(line, <<"}">>, IndexOf(line, <<"{">>) + 1) = 0
    THEN <<>>
    ELSE <<Trim(SubSeq(line, IndexOf(line, <<"{">>) + 1,
                       IndexFrom(line, <<"}">>, IndexOf(line, <<"{">>) + 1) - 1))>>

\* line.match(/{\s*([\s\S]*?)\s*}/): the tokens between the first '{' and
\* the first '}' after it
objToArr(line) ==
    LET o == IndexOf(line, <<"{">>)
        c == IF o = 0 THEN 0 ELSE IndexFrom(line, <<"}">>, o + 1)
    IN  IF o = 0 \/ c = 0 THEN <<>>
        ELSE Tokens(SubSeq(line, o + 1, c - 1))

\* s.replace(/^"|"$/g, '')
StripOuterQuotes(s) ==
    LET a == IF s # <<>> /\ Head(s) = "\"" THEN Tail(s) ELSE s
    IN  IF a # <<>> /\ a[Len(a)] = "\"" THEN SubSeq(a, 1, Len(a) - 1) ELSE a

\* the first run of non-whitespace of s, when s starts with one
FirstWord(s) ==
    IF \E i \in 1..Len(s) : IsWs(s[i])
    THEN SubSeq(s, 1, (CHOOSE i \in 1..Len(s) : IsWs(s[i]) /\ \A j \in 1..(i - 1) : ~IsWs(s[j])) - 1)
    ELSE s

\* joined.match(/^(\S+)\s+"([\s\S]*)"$/) succeeds
MultilineMatch(joined) ==
    /\ joined # <<>>
    /\ ~IsWs(joined[1])
    /\ LET rest == SubSeq(joined, Len(FirstWord(joined)) + 1, Len(joined))
           val  == TrimStart(rest)
       IN  /\ rest # <<>>
           /\ Len(val) >= 2
           /\ val[1] = "\""
           /\ val[Len(val)] = "\""

arrToMultilineStr(chunk) ==
    LET joined == Join(chunk, <<"\n">>) IN
    IF MultilineMatch(joined)
    THEN LET val == TrimStart(SubSeq(joined, Len(FirstWord(joined)) + 1, Len(joined)))
         IN  [k |-> FirstWord(joined), v |-> VStr(SubSeq(val, 2, Len(val) - 1))]
    ELSE \* fallback: key of the trimmed first line; the key is removed only
         \* when the joined text starts with it (new RegExp(`^${key}\\s*`))
         LET firstLine == Trim(chunk[1])
             key       == Head(Split(firstLine, " "))
             unkeyed   == IF StartsWith(joined, key)
                          THEN TrimStart(SubSeq(joined, Len(key) + 1, Len(joined)))
                          ELSE joined
         IN  [k |-> key, v |-> VStr(StripOuterQuotes(unkeyed))]

(***************************************************************************)
(* groupObjects: root-level grouping by bracket depth                      *)
(***************************************************************************)
\* s.replace(/\\"/g, '')
RECURSIVE RemoveEscapedQuotes(_)
RemoveEscapedQuotes(s) ==
    IF s = <<>> THEN <<>>
    ELSE IF Len(s) >= 2 /\ s[1] = "\\" /\ s[2] = "\""
         THEN RemoveEscapedQuotes(SubSeq(s, 3, Len(s)))
         ELSE <<s[1]>> \o RemoveEscapedQuotes(Tail(s))

\* s.replace(/"[^"]*"/g, '')
RECURSIVE RemoveQuoted(_)
RemoveQuoted(s) ==
    IF s = <<>> THEN <<>>
    ELSE IF s[1] = "\"" /\ IndexFrom(s, <<"\"">>, 2) # 0
         THEN RemoveQuoted(SubSeq(s, IndexFrom(s, <<"\"">>, 2) + 1, Len(s)))
         ELSE <<s[1]>> \o RemoveQuoted(Tail(s))

\* a line of which the quoted parts are kept
CountedLineWithQuotes(line) == Trim(line)

\* the braces of a line that are counted: not quoted, not preceded by '\'
CountedLine(line) == RemoveQuoted(RemoveEscapedQuotes(Trim(line)))

Unescaped(u, i) == i = 1 \/ u[i - 1] # "\\"

OpenCount(line) ==
    LET u == CountedLine(line)
    IN  Cardinality({i \in 1..Len(u) : u[i] = "{" /\ Unescaped(u, i)})

CloseCount(line) ==
    LET u == CountedLine(line)
    IN  Cardinality({i \in 1..Len(u) : u[i] = "}" /\ Unescaped(u, i)})

\* inside a rule, comments, 'set' and 'STREAM' lines are not counted
SkippedInRule(line) ==
    \/ StartsWith(Trim(line), <<"#">>)
    \/ StartsWith(Trim(line), <<"s", "e", "t">>)
    \/ StartsWith(Trim(line), <<"S", "T", "R", "E", "A", "M">>)

\* the while loop of groupObjects for the object opened at arr[i]: c is the
\* offset reached, eof whether the input ended first
RECURSIVE ScanObject(_, _, _, _, _, _, _)
ScanObject(arr, i, c0, bracketCount, opening, closing, ruleFlag) ==
    IF bracketCount = 0
    THEN [c |-> c0, eof |-> FALSE, opening |-> opening, closing |-> closing]
    ELSE With(c0 + 1, LAMBDA c :
         IF i + c > Len(arr) \/ arr[Min(i + c, Len(arr))] = <<>>
         THEN [c |-> c, eof |-> TRUE, opening |-> opening, closing |-> closing]
         ELSE IF SkippedInRule(arr[i + c]) /\ ruleFlag
              THEN ScanObject(arr, i, c, bracketCount, opening, closing, ruleFlag)
              ELSE With(OpenCount(arr[i + c]), LAMBDA opened :
                   With(CloseCount(arr[i + c]), LAMBDA closed :
                   IF isRule(arr[i + c])
                   THEN [c |-> c - 1, eof |-> FALSE,
                         opening |-> opening + opened,
                         closing |-> closing + closed]
                   ELSE ScanObject(arr, i, c, bracketCount + opened - closed,
                                   opening + opened, closing + closed, ruleFlag))))

IRuleErrorPrefix == <<"i", "R", "u", "l", "e", " ", "p", "a", "r", "s", "i", "n", "g", " ", "e", "r", "r", "o", "r", ",", " ", "c", "h", "e", "c", "k", " ", "t", "h", "e", " ", "f", "o", "l", "l", "o", "w", "i", "n", "g", " ", "i", "R", "u", "l", "e", ":", " ">>

\* a root-level line that is a whole object: "name { }" or "name { a b }"
IsOneLineObject(currentLine) ==
    /\ Includes(currentLine, <<"{">>)
    /\ Includes(currentLine, <<"}">>)
    /\ currentLine[1] # " "

\* a root-level line that opens a multi-line object
IsOpener(currentLine) ==
    /\ EndsWith(Trim(currentLine), <<"{">>)
    /\ ~StartsWith(currentLine, <<" ">>)
    /\ ~StartsWith(currentLine, <<"#">>)

\* error is <<>> (null) or <<message>>
RECURSIVE GroupLoop(_, _, _, _)
GroupLoop(arr, i, group, error) ==
    IF i > Len(arr) THEN [group |-> group, error |-> error]
    ELSE With(arr[i], LAMBDA currentLine :
         IF currentLine = <<>> THEN GroupLoop(arr, i + 1, group, error)
         ELSE IF IsOneLineObject(currentLine)
              THEN GroupLoop(arr, i + 1, Append(group, <<currentLine>>), error)
         ELSE IF IsOpener(currentLine)
              THEN With(isRule(currentLine), LAMBDA ruleFlag :
                   With(ScanObject(arr, i, 0, 1, 1, 0, ruleFlag), LAMBDA r :
                   GroupLoop(arr, i + r.c + 1,
                             Append(group, SubSeq(arr, i, Min(i + r.c, Len(arr)))),
                             IF r.eof /\ r.opening # r.closing /\ ruleFlag
                             THEN <<IRuleErrorPrefix \o currentLine>>
                             ELSE error)))
         ELSE GroupLoop(arr, i + 1, group, error))

groupObjects(arr) == GroupLoop(arr, 1, <<>>, <<>>)

(***************************************************************************)
(* orchestrate: one group to { title: value }.  A result is                *)
(* [ok |-> TRUE, key, obj] or, for a thrown Error, [ok |-> FALSE, message].*)
(***************************************************************************)
K_originalBody == <<"_", "o", "r", "i", "g", "i", "n", "a", "l", "B", "o", "d", "y">>
K_line == <<"l", "i", "n", "e">>
K_partition == <<"p", "a", "r", "t", "i", "t", "i", "o", "n">>
K_folder == <<"f", "o", "l", "d", "e", "r">>
K_name == <<"n", "a", "m", "e">>
K_userDefined == <<"u", "s", "e", "r", "-", "d", "e", "f", "i", "n", "e", "d">>

CloserLine == <<" ", " ", " ", " ", "}">>
AnonOpener == <<" ", " ", " ", " ", "{">>

Thrown(message) == [ok |-> FALSE, message |-> message]

MissingBraceError(line) ==
    Thrown(<<"M", "i", "s", "s", "i", "n", "g", " ", "o", "r", " ", "m", "i", "s", "-", "i", "n", "d", "e", "n", "t", "e", "d", " ", "'", "}", "'", " ", "f", "o", "r", " ", "l", "i", "n", "e", ":", " ", "'">> \o line \o <<"'">>)

\* coerceArr: the k-th line that is a bare '    {' becomes '    k {'
Coerce(subObjArr) ==
    [i \in 1..Len(subObjArr) |->
        IF subObjArr[i] = AnonOpener
        THEN <<" ", " ", " ", " ">>
             \o NatToStr(Cardinality({j \in 1..(i - 1) : subObjArr[j] = AnonOpener}))
             \o <<" ", "{">>
        ELSE subObjArr[i]]

QuoteCount(line) == countChar(line, "\"")

\* the last line of the multi-line string that starts at arr[i]
MultilineEnd(arr, i) ==
    LET stops == {j \in (i + 1)..Len(arr) : arr[j] = <<>> \/ QuoteCount(arr[j]) % 2 = 1}
    IN  IF stops = {} THEN Len(arr) + 1
        ELSE CHOOSE j \in stops : \A k \in stops : j <= k

IsEmptyObjectLine(line) ==
    EndsWith(SelectSeq(line, LAMBDA ch : ch # " "), <<"{", "}">>)

IsPseudoArrayLine(line) ==
    Includes(line, <<"{">>) /\ Includes(line, <<"}">>) /\ ~Includes(line, <<"\"">>)

IsFlagLine(line) ==
    LET t == Trim(line) IN
    /\ \/ ~Includes(t, <<" ">>)
       \/ (Len(t) >= 2 /\ t[1] = "\"" /\ t[Len(t)] = "\"")
    /\ ~Includes(line, <<"}">>)

RECURSIVE orchestrate(_), OrchBody(_, _, _, _)
\* the for loop over the body lines, from line i, with obj built so far
OrchBody(key, arr, i, obj) ==
    IF i > Len(arr) THEN [ok |-> TRUE, obj |-> obj]
    ELSE With(arr[i], LAMBDA line :
    IF line = <<>> THEN OrchBody(key, arr, i + 1, obj)
    ELSE IF EndsWith(line, <<"{">>) /\ Len(arr) # 1
    THEN \* nested object: up to the first '    }' line
         IF ~\E j \in (i + 1)..Len(arr) : arr[j] = CloserLine
         THEN MissingBraceError(line)
         ELSE With(CHOOSE j \in (i + 1)..Len(arr) :
                      arr[j] = CloserLine /\ \A k \in (i + 1)..(j - 1) : arr[k] # CloserLine,
                   LAMBDA j :
              With(orchestrate(Coerce(removeIndent(SubSeq(arr, i, j)))), LAMBDA sub :
              IF sub.ok THEN OrchBody(key, arr, j + 1, Put(obj, sub.key, sub.obj))
              ELSE sub))
    ELSE IF IsEmptyObjectLine(line)
    THEN OrchBody(key, arr, i + 1, Put(obj, Trim(Head(Split(line, "{"))), EmptyMap))
    ELSE IF IsPseudoArrayLine(line)
    THEN OrchBody(key, arr, i + 1, Put(obj, Trim(Head(Split(line, "{"))), VArr(objToArr(line))))
    ELSE IF IsFlagLine(line)
    THEN OrchBody(key, arr, i + 1, Put(obj, Trim(line), VStr(<<>>)))
    ELSE IF countIndent(line) = 4
    THEN IF QuoteCount(line) % 2 = 1
         THEN With(MultilineEnd(arr, i), LAMBDA j :
              With(arrToMultilineStr(SubSeq(arr, i, Min(j, Len(arr)))), LAMBDA e :
              OrchBody(key, arr, j + 1, Put(obj, e.k, e.v))))
         ELSE With(strToObj(Trim(line)), LAMBDA tmp :
              IF StartsWith(key, <<"g", "t", "m", " ", "m", "o", "n", "i", "t", "o", "r", " ", "e", "x", "t", "e", "r", "n", "a", "l">>) /\ tmp.k = K_userDefined
              THEN With(strToObj(tmp.v.s), LAMBDA kv :
                   OrchBody(key, arr, i + 1,
                            Put(obj, K_userDefined,
                                VMap(Put(IF Has(obj, K_userDefined) /\ IsMap(Get(obj, K_userDefined))
                                         THEN Get(obj, K_userDefined).m ELSE <<>>,
                                         kv.k, kv.v)))))
              ELSE OrchBody(key, arr, i + 1, Put(obj, tmp.k, tmp.v)))
    ELSE \* unrecognized line: logged, ignored
         OrchBody(key, arr, i + 1, obj))

orchestrate(arr) ==
    With(getTitle(IF arr = <<>> THEN <<>> ELSE arr[1]), LAMBDA key :
    \* arr after pop() and shift(), which is also arr.slice(1, -1)
    With(SubSeq(arr, 2, Len(arr) - 1), LAMBDA body :
    With(Join(body, <<"\n">>), LAMBDA originalBody :
    IF isRule(key)
    THEN [ok |-> TRUE, key |-> key, obj |-> VStr(Join(body, <<"\n">>))]
    ELSE IF Includes(key, <<"m", "o", "n", "i", "t", "o", "r", " ", "m", "i", "n">>)
    THEN [ok |-> TRUE, key |-> key,
          obj |-> [t |-> "arr",
                   a |-> Split(Join([i \in 1..Len(body) |-> Trim(body[i])], <<" ">>), " "),
                   ob |-> originalBody]]
    ELSE IF Includes(key, <<"c", "l", "i", " ", "s", "c", "r", "i", "p", "t">>) \/ Includes(key, <<"s", "y", "s", " ", "c", "r", "y", "p", "t", "o", " ", "c", "e", "r", "t", "-", "o", "r", "d", "e", "r", "-", "m", "a", "n", "a", "g", "e", "r">>)
    THEN [ok |-> TRUE, key |-> key,
          obj |-> VMap(<<[k |-> K_originalBody, v |-> VStr(originalBody)]>>)]
    ELSE With(OrchBody(key, body, 1, <<>>), LAMBDA r :
         IF r.ok
         THEN [ok |-> TRUE, key |-> key,
               obj |-> VMap(Put(r.obj, K_originalBody, VStr(originalBody)))]
         ELSE r))))

(***************************************************************************)
(* Preprocessing                                                           *)
(***************************************************************************)
\* String.prototype.slice(a, b) on 0-based indices, b negative from the end
JsSlice(s, a, b) ==
    LET bb == IF b < 0 THEN Len(s) + b ELSE b
    IN  SubSeq(s, a + 1, Min(bb, Len(s)))

\* indexOf, 0-based, -1 when absent
JsIndexOf(s, p) == IndexOf(s, p) - 1

TopologyRecord(line, topologyCount) ==
    LET ldnsIndex    == JsIndexOf(line, <<"l", "d", "n", "s", ":">>)
        serverIndex  == JsIndexOf(line, <<"s", "e", "r", "v", "e", "r", ":">>)
        bracketIndex == JsIndexOf(line, <<"{">>)
    IN  << <<" ", " ", " ", " ", " ", " ", " ", " ", "t", "o", "p", "o", "l", "o", "g", "y", "_">> \o NatToStr(topologyCount) \o <<" ", "{">>,
           <<" ", " ", " ", " ", " ", " ", " ", " ", " ", " ", " ", " ", "s", "o", "u", "r", "c", "e", " ">> \o Trim(JsSlice(line, ldnsIndex + 5, serverIndex)),
           <<" ", " ", " ", " ", " ", " ", " ", " ", " ", " ", " ", " ", "d", "e", "s", "t", "i", "n", "a", "t", "i", "o", "n", " ">> \o Trim(JsSlice(line, serverIndex + 7, bracketIndex)) >>

RECURSIVE TopologyLoop(_, _, _, _, _, _, _)
TopologyLoop(fileArr, i, newFileArr, topologyArr, topologyCount, longestMatchEnabled, inTopology) ==
    IF i > Len(fileArr)
    THEN newFileArr \o
         (IF topologyArr # <<>>
          THEN topologyArr \o
               << <<" ", " ", " ", " ", " ", " ", " ", " ", "l", "o", "n", "g", "e", "s", "t", "-", "m", "a", "t", "c", "h", "-", "e", "n", "a", "b", "l", "e", "d", " ">> \o
                     (IF longestMatchEnabled THEN <<"t", "r", "u", "e">> ELSE <<"f", "a", "l", "s", "e">>),
                  <<" ", " ", " ", " ", "}">>, <<"}">> >>
          ELSE <<>>)
    ELSE LET line == fileArr[i]
             lme  == longestMatchEnabled \/
                     (Includes(line, <<"t", "o", "p", "o", "l", "o", "g", "y", "-", "l", "o", "n", "g", "e", "s", "t", "-", "m", "a", "t", "c", "h">>) /\ Includes(line, <<"y", "e", "s">>))
         IN  IF StartsWith(line, <<"g", "t", "m", " ", "t", "o", "p", "o", "l", "o", "g", "y", " ", "l", "d", "n", "s", ":">>)
             THEN TopologyLoop(fileArr, i + 1, newFileArr,
                      (IF topologyArr = <<>>
                       THEN << <<"g", "t", "m", " ", "t", "o", "p", "o", "l", "o", "g", "y", " ", "/", "C", "o", "m", "m", "o", "n", "/", "S", "h", "a", "r", "e", "d", "/", "t", "o", "p", "o", "l", "o", "g", "y", " ", "{">>, <<" ", " ", " ", " ", "r", "e", "c", "o", "r", "d", "s", " ", "{">> >>
                       ELSE topologyArr) \o TopologyRecord(line, topologyCount),
                      topologyCount + 1, lme, TRUE)
             ELSE IF inTopology
             THEN IF line = <<"}">>
                  THEN TopologyLoop(fileArr, i + 1, newFileArr,
                           Append(topologyArr, <<" ", " ", " ", " ", " ", " ", " ", " ", "}">>), topologyCount, lme, FALSE)
                  ELSE TopologyLoop(fileArr, i + 1, newFileArr,
                           Append(topologyArr, <<" ", " ", " ", " ", " ", " ", " ", " ">> \o line), topologyCount, lme, TRUE)
             ELSE TopologyLoop(fileArr, i + 1, Append(newFileArr, line),
                      topologyArr, topologyCount, lme, FALSE)

preprocessTopology(fileArr) == TopologyLoop(fileArr, 1, <<>>, <<>>, 0, FALSE, FALSE)

CommentMark == <<"#", "c", "o", "m", "m", "e", "n", "t", "#", " ">>

RECURSIVE CommentLoop(_, _, _)
CommentLoop(fileArr, i, iruleDepth) ==
    IF i > Len(fileArr) THEN <<>>
    ELSE LET line == fileArr[i] IN
         IF iruleDepth = 0
         THEN IF StartsWith(Trim(line), <<"#", " ">>)
              THEN <<CommentMark \o SubSeq(Trim(line), 3, Len(Trim(line)))>>
                   \o CommentLoop(fileArr, i + 1, iruleDepth)
              ELSE <<line>> \o CommentLoop(fileArr, i + 1,
                                  IF isRule(line) THEN iruleDepth + 1 ELSE iruleDepth)
         ELSE <<line>> \o CommentLoop(fileArr, i + 1,
                             IF StartsWith(Trim(line), <<"#">>) THEN iruleDepth
                             ELSE iruleDepth + countChar(line, "{") - countChar(line, "}"))

preprocessComments(fileArr) == CommentLoop(fileArr, 1, 0)

(***************************************************************************)
(* flatToHierarchical and cleanupOriginalBody                              *)
(***************************************************************************)
NameChars ==
    {"a", "b", "c", "d", "e", "f", "g", "h", "i", "j", "k", "l", "m",
     "n", "o", "p", "q", "r", "s", "t", "u", "v", "w", "x", "y", "z",
     "A", "B", "C", "D", "E", "F", "G", "H", "I", "J", "K", "L", "M",
     "N", "O", "P", "Q", "R", "S", "T", "U", "V", "W", "X", "Y", "Z",
     "0", "1", "2", "3", "4", "5", "6", "7", "8", "9", "_", "-", "."}

IsNameSegment(seg) == seg # <<>> /\ \A i \in 1..Len(seg) : seg[i] \in NameChars

\* objectName.match(/^(\/[\w\d_\-.]+(?:\/[\w\d_\-.]+)?)\/([\w\d_\-.]+)$/)
NamePartsMatch(objectName) ==
    LET segs == Split(objectName, "/")
    IN  /\ Len(segs) \in {3, 4}
        /\ segs[1] = <<>>
        /\ \A i \in 2..Len(segs) : IsNameSegment(segs[i])

\* falsy values: '' (objects and arrays are truthy)
Truthy(v) == ~(IsStr(v) /\ v.s = <<>>)

\* the [key, value] pair stored for a non-string value: metadata added
Enhanced(objectName, value) ==
    With(IF IsMap(value) THEN Del(value.m, K_originalBody)
         ELSE [i \in 1..Len(value.a) |-> [k |-> NatToStr(i - 1), v |-> VStr(value.a[i])]],
         LAMBDA rest :
    With(IF IsMap(value)
         THEN (IF Has(value.m, K_originalBody) THEN Get(value.m, K_originalBody) ELSE VStr(<<>>))
         ELSE VStr(value.ob),
         LAMBDA ob :
    With(Put(rest, K_line, ob), LAMBDA base :
    With(Split(objectName, "/"), LAMBDA segs :
    IF NamePartsMatch(objectName)
    THEN With(Put(base, K_partition, VStr(segs[2])), LAMBDA p :
         With(IF Len(segs) = 4 THEN Put(p, K_folder, VStr(segs[3])) ELSE p, LAMBDA f :
         VMap(Put(f, K_name, VStr(segs[Len(segs)])))))
    ELSE VMap(base)))))

\* current = result[category]; for part of pathParts: current = current[part]
\* (created when falsy); current[k] = v.  Assigning through a non-empty
\* string is a TypeError in strict mode: [ok |-> FALSE].
RECURSIVE SetIn(_, _, _, _)
SetIn(m, path, k, v) ==
    IF path = <<>> THEN [ok |-> TRUE, m |-> Put(m, k, v)]
    ELSE With(Head(path), LAMBDA p :
         With(IF Has(m, p) /\ Truthy(Get(m, p)) THEN Get(m, p) ELSE EmptyMap, LAMBDA cur :
         IF ~IsMap(cur) THEN [ok |-> FALSE, m |-> m]
         ELSE With(SetIn(cur.m, Tail(path), k, v), LAMBDA r :
              [ok |-> r.ok, m |-> Put(m, p, VMap(r.m))])))

\* findIndex(p => p.startsWith('/')), 1-based, 0 when absent
NameIndex(parts) ==
    IF \E i \in 1..Len(parts) : StartsWith(parts[i], <<"/">>)
    THEN CHOOSE i \in 1..Len(parts) :
            StartsWith(parts[i], <<"/">>) /\ \A j \in 1..(i - 1) : ~StartsWith(parts[j], <<"/">>)
    ELSE 0

RECURSIVE FlatLoop(_, _, _)
FlatLoop(flat, i, result) ==
    IF i > Len(flat) THEN [ok |-> TRUE, tree |-> VMap(result)]
    ELSE With(flat[i].k, LAMBDA key :
         With(flat[i].v, LAMBDA value :
         With(Split(key, " "), LAMBDA parts :
         IF Len(parts) < 2 THEN FlatLoop(flat, i + 1, Put(result, key, value))
         ELSE With(parts[1], LAMBDA category :
              With(NameIndex(parts), LAMBDA nameIndex :
              IF nameIndex = 0
              THEN With(SetIn(result, <<category>>, Join(Tail(parts), <<" ">>), value),
                        LAMBDA r :
                   IF r.ok THEN FlatLoop(flat, i + 1, r.m)
                   ELSE Thrown(<<"C", "a", "n", "n", "o", "t", " ", "c", "r", "e", "a", "t", "e", " ", "p", "r", "o", "p", "e", "r", "t", "y">>))
              ELSE With(<<category>> \o SubSeq(parts, 2, nameIndex - 1), LAMBDA pathParts :
                   With(Join(SubSeq(parts, nameIndex, Len(parts)), <<" ">>), LAMBDA objectName :
                   With(SetIn(result, pathParts, objectName,
                              IF IsStr(value) THEN value ELSE Enhanced(objectName, value)),
                        LAMBDA r :
                   IF r.ok THEN FlatLoop(flat, i + 1, r.m)
                   ELSE Thrown(<<"C", "a", "n", "n", "o", "t", " ", "c", "r", "e", "a", "t", "e", " ", "p", "r", "o", "p", "e", "r", "t", "y">>)))))))))

flatToHierarchical(flat) == FlatLoop(flat, 1, <<>>)

RECURSIVE cleanupOriginalBody(_), CleanupEntries(_, _, _)
CleanupEntries(m, i, result) ==
    IF i > Len(m) THEN result
    ELSE IF m[i].k = K_originalBody
         THEN CleanupEntries(m, i + 1, Put(result, K_line, m[i].v))
         ELSE CleanupEntries(m, i + 1, Put(result, m[i].k, cleanupOriginalBody(m[i].v)))

cleanupOriginalBody(obj) ==
    IF IsStr(obj) THEN obj
    ELSE IF IsArr(obj) THEN VArr(obj.a)
    ELSE VMap(CleanupEntries(obj.m, 1, <<>>))

(***************************************************************************)
(* parseConfig.  The text is given by its '\n'-separated pieces; a result  *)
(* is [ok |-> TRUE, tree] or [ok |-> FALSE, message] for a thrown Error.   *)
(***************************************************************************)
\* configText.replace(/\r\n/g, '\n').split('\n')
NormalizeLines(pieces) ==
    [i \in 1..Len(pieces) |->
        IF i < Len(pieces) /\ pieces[i] # <<>> /\ pieces[i][Len(pieces[i])] = "\r"
        THEN SubSeq(pieces[i], 1, Len(pieces[i]) - 1)
        ELSE pieces[i]]

\* filter(line => !(line === '' || line.trim().startsWith('#comment# ')))
FilterLines(fileArr) ==
    SelectSeq(fileArr, LAMBDA line : ~(line = <<>> \/ StartsWith(Trim(line), CommentMark)))

Preprocess(pieces) ==
    FilterLines(preprocessComments(preprocessTopology(NormalizeLines(pieces))))

\* the for loop over the groups: Object.assign(flatParsed, orchestrate(group))
RECURSIVE ParseGroups(_, _, _)
ParseGroups(groups, i, flatParsed) ==
    IF i > Len(groups) THEN [ok |-> TRUE, flat |-> flatParsed]
    ELSE With(orchestrate(groups[i]), LAMBDA parsed :
         IF parsed.ok
         THEN ParseGroups(groups, i + 1, Put(flatParsed, parsed.key, parsed.obj))
         ELSE parsed)

ParseErrorPrefix == <<"E", "r", "r", "o", "r", " ", "p", "a", "r", "s", "i", "n", "g", " ", "c", "o", "n", "f", "i", "g", "u", "r", "a", "t", "i", "o", "n", ":", " ">>

\* a catch block that prefixes every message, the iRule one included
RethrowWrapped(message) == Thrown(ParseErrorPrefix \o message)

\* the catch block: an iRule error is rethrown as is, any other is prefixed
Rethrow(message) ==
    IF StartsWith(message, <<"i", "R", "u", "l", "e", " ", "p", "a", "r", "s", "i", "n", "g", " ", "e", "r", "r", "o", "r">>) THEN Thrown(message)
    ELSE Thrown(ParseErrorPrefix \o message)

parseConfig(pieces) ==
    With(groupObjects(Preprocess(pieces)), LAMBDA groupResult :
    IF groupResult.error # <<>> THEN Rethrow(groupResult.error[1])
    ELSE With(ParseGroups(groupResult.group, 1, <<>>), LAMBDA flatParsed :
         IF ~flatParsed.ok THEN Rethrow(flatParsed.message)
         ELSE With(flatToHierarchical(flatParsed.flat), LAMBDA hierarchical :
              IF ~hierarchical.ok THEN Rethrow(hierarchical.message)
              ELSE [ok |-> TRUE, tree |-> cleanupOriginalBody(hierarchical.tree)])))

(***************************************************************************)
(* objects.ts: pathValueFromKey.  A possibly undefined value is <<>> or    *)
(* <<value>>.                                                              *)
(***************************************************************************)
RECURSIVE Flatten(_)
Flatten(ss) == IF ss = <<>> THEN <<>> ELSE Head(ss) \o Flatten(Tail(ss))

\* obj?.[k1]?.[k2]...
RECURSIVE Lookup(_, _)
Lookup(v, path) ==
    IF path = <<>> THEN <<v>>
    ELSE IF IsMap(v) /\ Has(v.m, Head(path))
         THEN Lookup(Get(v.m, Head(path)), Tail(path))
         ELSE <<>>

\* the own enumerable properties of an object or an array, as entries
OwnEntries(v) ==
    IF IsMap(v) THEN v.m
    ELSE IF IsArr(v) THEN [i \in 1..Len(v.a) |-> [k |-> NatToStr(i - 1), v |-> VStr(v.a[i])]]
    ELSE <<>>

\* the recursive walk of pathValueFromKey; path is <<>> while undefined
RECURSIVE findKey(_, _, _)
findKey(obj, key, path) ==
    With(OwnEntries(obj), LAMBDA entries :
    With(IF path # <<>> /\ path[1] # <<>> THEN path[1] \o <<".">> ELSE <<>>, LAMBDA prefix :
    (IF Has(entries, key)
     THEN <<[path |-> path, key |-> key, value |-> Get(entries, key)]>>
     ELSE <<>>)
    \o Flatten([i \in 1..Len(entries) |->
                  IF IsMap(entries[i].v) \/ IsArr(entries[i].v)
                  THEN findKey(entries[i].v, key, <<prefix \o entries[i].k>>)
                  ELSE <<>>])))

\* the last result instead of the first
pathValueFromKeyLast(obj, key) ==
    IF obj = <<>> \/ IsStr(obj[1]) \/ findKey(obj[1], key, <<>>) = <<>> THEN <<>>
    ELSE <<findKey(obj[1], key, <<>>)[Len(findKey(obj[1], key, <<>>))]>>

\* "if (results.length = 1) return results[0]": the first result, or undefined
pathValueFromKey(obj, key) ==
    IF obj = <<>> \/ IsStr(obj[1]) THEN <<>>
    ELSE With(findKey(obj[1], key, <<>>), LAMBDA results :
         IF results = <<>> THEN <<>> ELSE <<results[1]>>)

(***************************************************************************)
(* pools.ts: poolsInPolicy, the pool names a policy's text refers to.      *)
(***************************************************************************)
poolsInPolicy(line) ==
    With(Tokens(line), LAMBDA tokens :
    Flatten([i \in 1..Len(tokens) |->
                IF i > 1 /\ tokens[i - 1] = <<"p", "o", "o", "l">> /\ StartsWith(tokens[i], <<"/">>)
                THEN <<tokens[i]>> ELSE <<>>]))

(***************************************************************************)
(* digConfigs.ts: digVsConfig.  Template literals render a value with Str, *)
(* an undefined one as 'undefined'.                                        *)
(***************************************************************************)
K_lines == <<"l", "i", "n", "e", "s">>
K_pool == <<"p", "o", "o", "l">>
K_members == <<"m", "e", "m", "b", "e", "r", "s">>
K_monitor == <<"m", "o", "n", "i", "t", "o", "r">>
K_profiles == <<"p", "r", "o", "f", "i", "l", "e", "s">>
K_rules == <<"r", "u", "l", "e", "s">>
K_snat == <<"s", "n", "a", "t">>
K_policies == <<"p", "o", "l", "i", "c", "i", "e", "s">>
K_persist == <<"p", "e", "r", "s", "i", "s", "t">>
K_fallbackPersistence == <<"f", "a", "l", "l", "b", "a", "c", "k", "-", "p", "e", "r", "s", "i", "s", "t", "e", "n", "c", "e">>
K_ltm == <<"l", "t", "m">>

\* an array whose elements are values (objects), not strings
VList(a) == [t |-> "list", a |-> a]

Str(v) ==
    IF IsStr(v) THEN v.s
    ELSE IF IsArr(v) THEN Join(v.a, <<",">>)
    ELSE <<"[", "o", "b", "j", "e", "c", "t", " ", "O", "b", "j", "e", "c", "t", "]">>

TruthyField(m, k) == Has(m, k) /\ Truthy(Get(m, k))

\* `${body.line}`
LineOf(v) == IF IsMap(v) /\ Has(v.m, K_line) THEN Str(Get(v.m, K_line)) ELSE <<"u", "n", "d", "e", "f", "i", "n", "e", "d">>

\* `${x.value?.line || ''}`
LineOrEmpty(v) == IF IsMap(v) /\ TruthyField(v.m, K_line) THEN Str(Get(v.m, K_line)) ELSE <<>>

\* `${p.path}`
PathOf(p) == IF p.path = <<>> THEN <<"u", "n", "d", "e", "f", "i", "n", "e", "d">> ELSE p.path[1]

\* delete v.line
DeleteLine(v) == IF IsMap(v) THEN VMap(Del(v.m, K_line)) ELSE v

\* JSON.parse(JSON.stringify(v)): a copy that shares nothing with v; of an
\* undefined v, JSON.parse throws a SyntaxError
JsonClone(v) == IF v = <<>> THEN Thrown(<<"S", "y", "n", "t", "a", "x", "E", "r", "r", "o", "r">>) ELSE [ok |-> TRUE, value |-> v[1]]

\* Object.keys of a value
ObjectKeys(v) ==
    IF IsMap(v) THEN Keys(v.m)
    ELSE [i \in 1..Len(IF IsStr(v) THEN v.s ELSE v.a) |-> NatToStr(i - 1)]

\* lines 55-67: the node fragment of every pool member whose node exists
NodeLines(members, configTree) ==
    With(ObjectKeys(members), LAMBDA names :
    Flatten([i \in 1..Len(names) |->
        With(Split(names[i], ":")[1], LAMBDA name :
        With(Lookup(configTree, <<K_ltm, <<"n", "o", "d", "e">>, name>>), LAMBDA body :
        IF body # <<>> /\ Truthy(body[1])
        THEN <<<<"l", "t", "m", " ", "n", "o", "d", "e", " ">> \o name \o <<" ", "{">> \o LineOf(body[1]) \o <<"}">>>>
        ELSE <<>>))]))

\* lines 72-74: the monitors of the pool, as values
MonitorList(monitor) ==
    IF IsArr(monitor) THEN [i \in 1..Len(monitor.a) |-> VStr(monitor.a[i])]
    ELSE IF monitor.t = "list" THEN monitor.a
    ELSE <<monitor>>

\* lines 84-92: the fragment of every monitor that resolves
MonitorLines(monitor, configTree) ==
    With(MonitorList(monitor), LAMBDA monitors :
    Flatten([i \in 1..Len(monitors) |->
        IF ~IsStr(monitors[i]) THEN <<>>
        ELSE With(pathValueFromKey(Lookup(configTree, <<K_ltm, K_monitor>>), monitors[i].s),
                  LAMBDA p :
             IF p = <<>> THEN <<>>
             ELSE <<<<"l", "t", "m", " ", "m", "o", "n", "i", "t", "o", "r", " ">> \o PathOf(p[1]) \o <<" ">> \o p[1].key
                    \o <<" ", "{", " ">> \o LineOrEmpty(p[1].value) \o <<" ", "}">>>>)]))

\* lines 76-96: processedMonitors
ProcessedMonitors(monitor, configTree) ==
    With(MonitorList(monitor), LAMBDA monitors :
    Flatten([i \in 1..Len(monitors) |->
        IF ~IsStr(monitors[i]) THEN <<monitors[i]>>
        ELSE With(pathValueFromKey(Lookup(configTree, <<K_ltm, K_monitor>>), monitors[i].s),
                  LAMBDA p :
             IF p = <<>> THEN <<>> ELSE <<DeleteLine(p[1].value)>>)]))

\* lines 50-58: the cloned pool without its line entries
CleanPool(pool) ==
    With(DeleteLine(pool), LAMBDA p1 :
    IF ~(IsMap(p1) /\ TruthyField(p1.m, K_members)) THEN p1
    ELSE With(DeleteLine(Get(p1.m, K_members)), LAMBDA members :
         VMap(Put(p1.m, K_members,
                  IF IsMap(members)
                  THEN VMap([i \in 1..Len(members.m) |->
                              [k |-> members.m[i].k, v |-> DeleteLine(members.m[i].v)]])
                  ELSE members))))

\* the pool with lines pushed in the order monitors, then nodes
PoolLinesMonitorsFirst(pool, poolName, configTree) ==
    (IF Truthy(pool)
     THEN <<<<"l", "t", "m", " ", "p", "o", "o", "l", " ">> \o poolName \o <<" ", "{">> \o LineOf(pool) \o <<"}">>>> ELSE <<>>)
    \o (IF IsMap(pool) /\ TruthyField(pool.m, K_monitor)
        THEN MonitorLines(Get(pool.m, K_monitor), configTree) ELSE <<>>)
    \o (IF IsMap(pool) /\ TruthyField(pool.m, K_members)
        THEN NodeLines(DeleteLine(Get(pool.m, K_members)), configTree) ELSE <<>>)

\* lines 44-93: the fragments pushed for the pool of the virtual server
PoolLines(pool, poolName, configTree) ==
    (IF Truthy(pool)
     THEN <<<<"l", "t", "m", " ", "p", "o", "o", "l", " ">> \o poolName \o <<" ", "{">> \o LineOf(pool) \o <<"}">>>> ELSE <<>>)
    \o (IF IsMap(pool) /\ TruthyField(pool.m, K_members)
        THEN NodeLines(DeleteLine(Get(pool.m, K_members)), configTree) ELSE <<>>)
    \o (IF IsMap(pool) /\ TruthyField(pool.m, K_monitor)
        THEN MonitorLines(Get(pool.m, K_monitor), configTree) ELSE <<>>)

\* lines 41-98; [ok, app, lines], or the Error thrown at line 49
DigPool(appObj, lines, configTree) ==
    IF ~TruthyField(appObj, K_pool) THEN [ok |-> TRUE, app |-> appObj, lines |-> lines]
    ELSE With(Str(Get(appObj, K_pool)), LAMBDA poolName :
         With(JsonClone(Lookup(configTree, <<K_ltm, K_pool, poolName>>)), LAMBDA clone :
         IF ~clone.ok THEN clone
         ELSE With(CleanPool(clone.value), LAMBDA pool :
              [ok |-> TRUE,
               app |-> Put(appObj, K_pool,
                           IF IsMap(pool) /\ TruthyField(pool.m, K_monitor)
                           THEN VMap(Put(pool.m, K_monitor,
                                VList(ProcessedMonitors(Get(pool.m, K_monitor), configTree))))
                           ELSE pool),
               lines |-> lines \o PoolLines(clone.value, poolName, configTree)])))

\* the names of a profiles/rules/policies value: keys but 'line', or elements
NamesOf(v) ==
    IF IsMap(v) THEN SelectSeq(Keys(v.m), LAMBDA k : k # K_line)
    ELSE IF IsArr(v) THEN v.a
    ELSE <<>>

\* one fragment `<prefix>${x.path} ${x.key} {${x.value?.line || ''}}`
Fragment(prefix, x) ==
    prefix \o PathOf(x) \o <<" ">> \o x.key \o <<" ", "{">> \o LineOrEmpty(x.value) \o <<"}">>

\* for every name, only the fragment of the first sub-tree that holds it
ProfileLinesFirstFound(names, configTree) ==
    Flatten([i \in 1..Len(names) |->
        With(pathValueFromKey(Lookup(configTree, <<K_ltm, <<"p", "r", "o", "f", "i", "l", "e">>>>), names[i]),
             LAMBDA x :
        With(pathValueFromKey(Lookup(configTree, <<<<"a", "p", "m">>, <<"p", "r", "o", "f", "i", "l", "e">>, <<"a", "c", "c", "e", "s", "s">>>>), names[i]),
             LAMBDA y :
        With(pathValueFromKey(Lookup(configTree, <<<<"a", "s", "m">>, <<"p", "o", "l", "i", "c", "y">>>>), names[i]),
             LAMBDA z :
        IF x # <<>> THEN <<Fragment(<<"l", "t", "m", " ", "p", "r", "o", "f", "i", "l", "e", " ">>, x[1])>>
        ELSE IF y # <<>> THEN <<Fragment(<<"a", "p", "m", " ", "p", "r", "o", "f", "i", "l", "e", " ", "a", "c", "c", "e", "s", "s", " ">>, y[1])>>
        ELSE IF z # <<>> THEN <<Fragment(<<"a", "s", "m", " ", "p", "o", "l", "i", "c", "y", " ">>, z[1])>>
        ELSE <<>>)))])

\* lines 114-132
ProfileLines(names, configTree) ==
    Flatten([i \in 1..Len(names) |->
        With(pathValueFromKey(Lookup(configTree, <<K_ltm, <<"p", "r", "o", "f", "i", "l", "e">>>>), names[i]),
             LAMBDA x :
        With(pathValueFromKey(Lookup(configTree, <<<<"a", "p", "m">>, <<"p", "r", "o", "f", "i", "l", "e">>, <<"a", "c", "c", "e", "s", "s">>>>), names[i]),
             LAMBDA y :
        With(pathValueFromKey(Lookup(configTree, <<<<"a", "s", "m">>, <<"p", "o", "l", "i", "c", "y">>>>), names[i]),
             LAMBDA z :
        (IF x # <<>> THEN <<Fragment(<<"l", "t", "m", " ", "p", "r", "o", "f", "i", "l", "e", " ">>, x[1])>> ELSE <<>>)
        \o (IF y # <<>> THEN <<Fragment(<<"a", "p", "m", " ", "p", "r", "o", "f", "i", "l", "e", " ", "a", "c", "c", "e", "s", "s", " ">>, y[1])>> ELSE <<>>)
        \o (IF z # <<>> THEN <<Fragment(<<"a", "s", "m", " ", "p", "o", "l", "i", "c", "y", " ">>, z[1])>> ELSE <<>>))))])

\* lines 149-155
RuleLines(names, configTree) ==
    Flatten([i \in 1..Len(names) |->
        With(pathValueFromKey(Lookup(configTree, <<K_ltm, <<"r", "u", "l", "e">>>>), names[i]), LAMBDA x :
        IF x # <<>>
        THEN <<<<"l", "t", "m", " ", "r", "u", "l", "e", " ">> \o x[1].key \o <<" ", "{">> \o Str(x[1].value) \o <<"}">>>>
        ELSE <<>>)])

\* lines 193-202
PolicyPoolLines(pools, configTree) ==
    Flatten([j \in 1..Len(pools) |->
        With(Lookup(configTree, <<K_ltm, K_pool, pools[j]>>), LAMBDA cfg :
        IF cfg # <<>> /\ Truthy(cfg[1])
        THEN <<<<"l", "t", "m", " ", "p", "o", "o", "l", " ">>
               \o (IF IsMap(cfg[1]) /\ Has(cfg[1].m, K_name)
                   THEN Str(Get(cfg[1].m, K_name)) ELSE <<"u", "n", "d", "e", "f", "i", "n", "e", "d">>)
               \o <<" ", "{">> \o LineOrEmpty(cfg[1]) \o <<"}">>>>
        ELSE <<>>)])

\* lines 183-205
PolicyLines(names, configTree) ==
    Flatten([i \in 1..Len(names) |->
        With(pathValueFromKey(Lookup(configTree, <<K_ltm, <<"p", "o", "l", "i", "c", "y">>>>), names[i]), LAMBDA x :
        IF x # <<>>
        THEN <<<<"l", "t", "m", " ", "p", "o", "l", "i", "c", "y", " ">> \o x[1].key \o <<" ", "{">> \o LineOrEmpty(x[1].value) \o <<"}">>>>
             \o PolicyPoolLines(poolsInPolicy(LineOrEmpty(x[1].value)), configTree)
        ELSE <<>>)])

\* lines 210-213 and 218-221
PersistLines(appObj, k, configTree) ==
    IF ~TruthyField(appObj, k) THEN <<>>
    ELSE With(pathValueFromKey(Lookup(configTree, <<K_ltm, <<"p", "e", "r", "s", "i", "s", "t", "e", "n", "c", "e">>>>),
                               Str(Get(appObj, k))),
              LAMBDA x :
         IF x # <<>> THEN <<Fragment(<<"l", "t", "m", " ", "p", "e", "r", "s", "i", "s", "t", "e", "n", "c", "e", " ">>, x[1])>> ELSE <<>>)

\* lines 100-222: what follows the pool: profiles, rules, snat, policies and
\* persistence, each replacing its entry of appObj and pushing its fragments
DigRest(appObj, lines, vsConfig, configTree) ==
    With(IF TruthyField(appObj, K_profiles) THEN NamesOf(Get(appObj, K_profiles)) ELSE <<>>,
         LAMBDA profiles :
    With(IF TruthyField(appObj, K_profiles) THEN Put(appObj, K_profiles, VArr(profiles)) ELSE appObj,
         LAMBDA a1 :
    With(IF TruthyField(a1, K_rules) THEN NamesOf(Get(a1, K_rules)) ELSE <<>>,
         LAMBDA rules :
    With(IF TruthyField(a1, K_rules) THEN Put(a1, K_rules, VArr(rules)) ELSE a1,
         LAMBDA a2 :
    With(IF Has(vsConfig, K_snat) THEN Str(Get(vsConfig, K_snat)) ELSE <<"u", "n", "d", "e", "f", "i", "n", "e", "d">>,
         LAMBDA snatName :
    With(Lookup(configTree, <<K_ltm, <<"s", "n", "a", "t", "p", "o", "o", "l">>, snatName>>),
         LAMBDA snatpool :
    With(TruthyField(a2, K_snat) /\ snatpool # <<>> /\ Truthy(snatpool[1]),
         LAMBDA hasSnat :
    With(IF hasSnat THEN Put(a2, K_snat, DeleteLine(snatpool[1])) ELSE a2,
         LAMBDA a3 :
    With(IF TruthyField(a3, K_policies) THEN NamesOf(Get(a3, K_policies)) ELSE <<>>,
         LAMBDA policies :
    With(IF TruthyField(a3, K_policies) THEN Put(a3, K_policies, VArr(policies)) ELSE a3,
         LAMBDA a4 :
    [ok |-> TRUE,
     app |-> a4,
     lines |-> lines
               \o ProfileLines(profiles, configTree)
               \o RuleLines(rules, configTree)
               \o (IF hasSnat
                   THEN <<<<"l", "t", "m", " ", "s", "n", "a", "t", "p", "o", "o", "l", " ">> \o snatName \o <<" ", "{", " ">> \o LineOf(snatpool[1]) \o <<" ", "}">>>>
                   ELSE <<>>)
               \o PolicyLines(policies, configTree)
               \o PersistLines(a4, K_persist, configTree)
               \o PersistLines(a4, K_fallbackPersistence, configTree)]))))))))))

\* digVsConfig(vsName, vsConfig, configTree): [ok |-> TRUE, app] for the
\* bundle returned, [ok |-> FALSE, message] when the promise is rejected
digVsConfig(vsName, vsConfig, configTree) ==
    With(<<"l", "t", "m", " ", "v", "i", "r", "t", "u", "a", "l", " ">> \o vsName \o <<" ", "{">> \o LineOf(VMap(vsConfig)) \o <<"}">>,
         LAMBDA originalCfg :
    With(DigPool(Put(Del(vsConfig, K_line), K_lines, VArr(<<originalCfg>>)),
                 <<originalCfg>>, configTree),
         LAMBDA pooled :
    IF ~pooled.ok THEN pooled
    ELSE With(DigRest(pooled.app, pooled.lines, vsConfig, configTree), LAMBDA rest :
         [ok |-> TRUE, app |-> VMap(Put(rest.app, K_lines, VArr(rest.lines)))])))

(***************************************************************************)
(* deepmerge-ts: deepmergeInto(target, source).  Records are merged key by *)
(* key into the target, arrays are concatenated, anything else is replaced *)
(* by the source's value.  A value taken from the source is not copied: it *)
(* is the source's own object.  When the source is part of the ConfigTree, *)
(* such an object is written VRef(path), its path in the tree.             *)
(***************************************************************************)
VRef(path) == [t |-> "ref", path |-> path]

IsContainer(v) == v.t \in {"map", "arr", "list"}

\* the value stored for a property taken from the source
Taken(v, at) == IF at # <<>> /\ IsContainer(v) THEN VRef(at[1]) ELSE v

\* at is <<>> for a source the caller owns, <<path>> for one in the tree
RECURSIVE deepmergeInto(_, _, _)
deepmergeInto(target, source, at) ==
    IF IsMap(target) /\ IsMap(source)
    THEN LET RECURSIVE MergeKeys(_, _)
             MergeKeys(m, i) ==
                IF i > Len(source.m) THEN m
                ELSE LET k == source.m[i].k
                         sub == IF at = <<>> THEN <<>> ELSE <<at[1] \o <<k>>>>
                     IN  MergeKeys(Put(m, k,
                                       IF Has(m, k)
                                       THEN deepmergeInto(Get(m, k), source.m[i].v, sub)
                                       ELSE Taken(source.m[i].v, sub)),
                                   i + 1)
         IN  VMap(MergeKeys(target.m, 1))
    ELSE IF IsArr(target) /\ IsArr(source) THEN VArr(target.a \o source.a)
    ELSE Taken(source, at)

(***************************************************************************)
(* digGslb.ts: DigGslb.fqdns over gtm = configObject.gtm.                  *)
(***************************************************************************)
gtmRecordTypes == <<<<"a">>, <<"a", "a", "a", "a">>, <<"n", "s">>, <<"s", "r", "v">>, <<"c", "n", "a", "m", "e">>, <<"m", "x">>, <<"n", "a", "p", "t", "r">>>>

K_gtm == <<"g", "t", "m">>
K_server == <<"s", "e", "r", "v", "e", "r">>

\* `${o[k]}`
Field(v, k) == IF IsMap(v) /\ Has(v.m, k) THEN Str(Get(v.m, k)) ELSE <<"u", "n", "d", "e", "f", "i", "n", "e", "d">>

\* o[k] ? o[k] : ''
FieldOrEmpty(v, k) == IF IsMap(v) /\ TruthyField(v.m, k) THEN Str(Get(v.m, k)) ELSE <<>>

\* the translated destination without the translation port
DestinationWithoutPort(vServer) ==
    IF FieldOrEmpty(vServer, <<"t", "r", "a", "n", "s", "l", "a", "t", "i", "o", "n", "-", "a", "d", "d", "r", "e", "s", "s">>) # <<>>
    THEN Field(vServer, <<"d", "e", "s", "t", "i", "n", "a", "t", "i", "o", "n">>) \o <<"-", ">", "N", "A", "T", "-", ">">>
         \o FieldOrEmpty(vServer, <<"t", "r", "a", "n", "s", "l", "a", "t", "i", "o", "n", "-", "a", "d", "d", "r", "e", "s", "s">>)
    ELSE Field(vServer, <<"d", "e", "s", "t", "i", "n", "a", "t", "i", "o", "n">>)

\* lines 119-122
Destination(vServer) ==
    With(FieldOrEmpty(vServer, <<"t", "r", "a", "n", "s", "l", "a", "t", "i", "o", "n", "-", "p", "o", "r", "t">>), LAMBDA tPort :
    With(FieldOrEmpty(vServer, <<"t", "r", "a", "n", "s", "l", "a", "t", "i", "o", "n", "-", "a", "d", "d", "r", "e", "s", "s">>), LAMBDA tAddress :
    With(IF tPort # <<>> THEN tAddress \o <<":">> \o tPort ELSE tAddress, LAMBDA tAddressPort :
    IF tAddress # <<>>
    THEN Field(vServer, <<"d", "e", "s", "t", "i", "n", "a", "t", "i", "o", "n">>) \o <<"-", ">", "N", "A", "T", "-", ">">> \o tAddressPort
    ELSE Field(vServer, <<"d", "e", "s", "t", "i", "n", "a", "t", "i", "o", "n">>))))

\* lines 108-127: one member e of the pool; [e, lines, dests]
DigMember(e, configTree) ==
    With(Field(e, K_server), LAMBDA serverName :
    With(Lookup(configTree, <<K_gtm, K_server, serverName>>), LAMBDA serverDetails :
    With(<<K_gtm, K_server, serverName, <<"v", "i", "r", "t", "u", "a", "l", "-", "s", "e", "r", "v", "e", "r", "s">>, Field(e, <<"v", "s">>)>>, LAMBDA vsPath :
    With(Lookup(configTree, vsPath), LAMBDA vServer :
    IF serverDetails = <<>> \/ ~Truthy(serverDetails[1])
       \/ vServer = <<>> \/ ~Truthy(vServer[1])
    THEN [e |-> e, lines |-> <<>>, dests |-> <<>>]
    ELSE [e |-> IF IsMap(e) /\ IsMap(vServer[1])
                THEN deepmergeInto(e, vServer[1], <<vsPath>>) ELSE e,
          lines |-> <<<<"g", "t", "m", " ", "s", "e", "r", "v", "e", "r", " ">> \o serverName \o <<" ", "{", " ">>
                      \o LineOrEmpty(serverDetails[1]) \o <<" ", "}">>>>,
          dests |-> <<Destination(vServer[1])>>]))))

\* lines 97-130: the pool found for a reference; [pool, lines, dests]
DigGslbPool(poolRef, poolConfig, poolName, type, configTree) ==
    With(DeleteLine(poolConfig), LAMBDA poolDetails :
    With(IF IsMap(poolDetails) /\ TruthyField(poolDetails.m, K_members)
         THEN Get(poolDetails.m, K_members) ELSE EmptyMap,
         LAMBDA members :
    With(OwnEntries(members), LAMBDA entries :
    With([i \in 1..Len(entries) |->
             IF entries[i].k = K_line
             THEN [e |-> entries[i].v, lines |-> <<>>, dests |-> <<>>]
             ELSE DigMember(entries[i].v, configTree)],
         LAMBDA digged :
    [pool |-> deepmergeInto(poolRef,
                            IF IsMap(members) /\ members.m # <<>>
                            THEN VMap(Put(poolDetails.m, K_members,
                                      VMap([i \in 1..Len(entries) |->
                                              [k |-> entries[i].k, v |-> digged[i].e]])))
                            ELSE poolDetails,
                            <<>>),
     lines |-> <<<<"g", "t", "m", " ", "p", "o", "o", "l", " ">>
                 \o (IF FieldOrEmpty(poolConfig, <<"t", "y", "p", "e">>) # <<>>
                     THEN FieldOrEmpty(poolConfig, <<"t", "y", "p", "e">>) ELSE type)
                 \o <<" ">> \o poolName \o <<" ", "{", " ">> \o LineOrEmpty(poolConfig) \o <<" ", "}">>>>
               \o Flatten([i \in 1..Len(entries) |-> digged[i].lines]),
     dests |-> (IF FieldOrEmpty(poolDetails, <<"f", "a", "l", "l", "b", "a", "c", "k", "-", "i", "p">>) # <<>>
                THEN <<FieldOrEmpty(poolDetails, <<"f", "a", "l", "l", "b", "a", "c", "k", "-", "i", "p">>)>> ELSE <<>>)
               \o Flatten([i \in 1..Len(entries) |-> digged[i].dests])]))))

K_pools == <<"p", "o", "o", "l", "s">>
K_aliases == <<"a", "l", "i", "a", "s", "e", "s">>

\* lines 86-132: the loop over the pool references of one wideip; acc is
\* [ok, pools, lines, dests]; "poolRef.name = poolName" on a reference that
\* is not an object throws a TypeError
RECURSIVE DigPoolRefs(_, _, _, _, _)
DigPoolRefs(entries, i, type, configTree, acc) ==
    IF i > Len(entries) THEN acc
    ELSE IF entries[i].k = K_line THEN DigPoolRefs(entries, i + 1, type, configTree, acc)
    ELSE IF ~IsMap(entries[i].v) THEN Thrown(<<"T", "y", "p", "e", "E", "r", "r", "o", "r">>)
    ELSE With(entries[i].k, LAMBDA poolName :
         With(VMap(Put(entries[i].v.m, K_name, VStr(poolName))), LAMBDA poolRef :
         With(Lookup(configTree, <<K_gtm, K_pool, type, poolName>>), LAMBDA poolConfig :
         IF poolConfig = <<>> \/ ~Truthy(poolConfig[1])
         THEN DigPoolRefs(entries, i + 1, type, configTree,
                          [acc EXCEPT !.pools = Put(@, poolName, poolRef)])
         ELSE With(DigGslbPool(poolRef, poolConfig[1], poolName, type, configTree), LAMBDA d :
              DigPoolRefs(entries, i + 1, type, configTree,
                          [ok |-> TRUE,
                           pools |-> Put(acc.pools, poolName, d.pool),
                           lines |-> acc.lines \o d.lines,
                           dests |-> acc.dests \o d.dests])))))

\* lines 55-135: the bundle of the wideip k of a record type
DigWideip(type, k, v, configTree) ==
    With(<<"g", "t", "m", " ", "w", "i", "d", "e", "i", "p", " ">> \o type \o <<" ">> \o k \o <<" ", "{">> \o LineOf(v) \o <<"}">>,
         LAMBDA originalCfg :
    With(Split(k, "/"), LAMBDA segments :
    With(Put(Put(Put(Del(v.m, K_line), K_lines, VArr(<<originalCfg>>)),
                 <<"f", "q", "d", "n">>, VStr(IF segments[Len(segments)] # <<>>
                                THEN segments[Len(segments)] ELSE k)),
             <<"t", "y", "p", "e">>, VStr(type)),
         LAMBDA t1 :
    With(IF TruthyField(t1, K_aliases) /\ ~IsStr(Get(t1, K_aliases))
         THEN Put(t1, K_aliases,
                  VArr(SelectSeq(ObjectKeys(Get(t1, K_aliases)), LAMBDA a : a # K_line)))
         ELSE t1,
         LAMBDA t2 :
    With(Put(t2, <<"a", "l", "l", "P", "o", "s", "s", "i", "b", "l", "e", "D", "e", "s", "t", "i", "n", "a", "t", "i", "o", "n", "s">>, VArr(<<>>)), LAMBDA appObj :
    With(IF TruthyField(appObj, K_pools)
         THEN DigPoolRefs(OwnEntries(Get(appObj, K_pools)), 1, type, configTree,
                          [ok |-> TRUE,
                           pools |-> IF IsMap(Get(appObj, K_pools))
                                     THEN Get(appObj, K_pools).m ELSE <<>>,
                           lines |-> <<originalCfg>>, dests |-> <<>>])
         ELSE [ok |-> TRUE, pools |-> <<>>, lines |-> <<originalCfg>>, dests |-> <<>>],
         LAMBDA refs :
    IF ~refs.ok THEN refs
    ELSE [ok |-> TRUE,
          app |-> VMap(Put(Put(IF TruthyField(appObj, K_pools)
                                  /\ IsMap(Get(appObj, K_pools))
                               THEN Put(appObj, K_pools, VMap(refs.pools))
                               ELSE appObj,
                               K_lines, VArr(refs.lines)),
                           <<"a", "l", "l", "P", "o", "s", "s", "i", "b", "l", "e", "D", "e", "s", "t", "i", "n", "a", "t", "i", "o", "n", "s">>, VArr(refs.dests)))]))))))

\* the loop over the wideips of one record type
RECURSIVE DigWideips(_, _, _, _, _)
DigWideips(type, entries, i, configTree, found) ==
    IF i > Len(entries) THEN [ok |-> TRUE, apps |-> found]
    ELSE With(DigWideip(type, entries[i].k, entries[i].v, configTree), LAMBDA d :
         IF ~d.ok THEN d
         ELSE DigWideips(type, entries, i + 1, configTree, Append(found, d.app)))

\* fqdns(): [ok |-> TRUE, apps] or the Error the promise is rejected with;
\* the wideips of the ConfigTree are objects
RECURSIVE fqdns(_, _, _)
fqdns(configTree, t, found) ==
    IF t > Len(gtmRecordTypes) THEN [ok |-> TRUE, apps |-> found]
    ELSE With(Lookup(configTree, <<K_gtm, <<"w", "i", "d", "e", "i", "p">>, gtmRecordTypes[t]>>), LAMBDA wideips :
         IF wideips = <<>> \/ ~Truthy(wideips[1]) THEN fqdns(configTree, t + 1, found)
         ELSE With(DigWideips(gtmRecordTypes[t], OwnEntries(wideips[1]), 1, configTree, found),
                   LAMBDA d :
              IF ~d.ok THEN d ELSE fqdns(configTree, t + 1, d.apps)))

(***************************************************************************)
(* universalParse.ts: parseConfigs and its deepMerge.  A file is           *)
(* [fileName, content], the content given by its lines.                    *)
(***************************************************************************)
RECURSIVE deepMerge(_, _)
deepMerge(target, source) ==
    LET RECURSIVE MergeKeys(_, _)
        MergeKeys(result, i) ==
            IF i > Len(source) THEN result
            ELSE LET k == source[i].k
                     v == source[i].v
                 IN  MergeKeys(Put(result, k,
                                   IF IsMap(v) /\ Has(result, k) /\ IsMap(Get(result, k))
                                   THEN VMap(deepMerge(Get(result, k).m, v.m))
                                   ELSE v),
                               i + 1)
    IN  MergeKeys(target, 1)

\* certs, keys and license files are skipped
Skipped(fileName) ==
    \/ Includes(fileName, <<"C", "o", "m", "m", "o", "n", "_", "d">>)
    \/ Includes(fileName, <<"b", "i", "g", "i", "p", "_", "s", "c", "r", "i", "p", "t", ".", "c", "o", "n", "f">>)
    \/ Includes(fileName, <<".", "l", "i", "c", "e", "n", "s", "e">>)

\* [ok |-> TRUE, tree] or the Error that parseConfig threw
RECURSIVE MergeFiles(_, _, _)
MergeFiles(fs, i, merged) ==
    IF i > Len(fs) THEN [ok |-> TRUE, tree |-> VMap(merged)]
    ELSE IF Skipped(fs[i].fileName) THEN MergeFiles(fs, i + 1, merged)
    ELSE With(parseConfig(fs[i].content), LAMBDA oneParsed :
         IF ~oneParsed.ok THEN oneParsed
         ELSE MergeFiles(fs, i + 1, deepMerge(merged, oneParsed.tree.m)))

parseConfigs(fs) == MergeFiles(fs, 1, <<>>)


(***************************************************************************)
(* State.  text/parsed: one parseConfig call; configObject: the tree of a  *)
(* BigipConfig; snapshot/bundle/apps/mutations: the resolver;              *)
(* files/delivered/awaiting/rx/merged: the multi-source entry points;       *)
(* tmosVersion: the version the regex tree was built for; jobs: the queue  *)
(* of promise jobs; phase/listed/hostname: one loadParseAsync call;        *)
(* options/extracted/partitions: one call of apps(options) and of          *)
(* listPartitions(); sought/located: one call of pathValueFromKey;         *)
(* grouped: the line arrays and the groups of one parseConfig call.        *)
(***************************************************************************)
VARIABLES text, parsed, configObject, snapshot, bundle, apps, mutations,
          files, delivered, awaiting, rx, attempted, merged,
          tmosVersion, jobs, phase, listed, hostname,
          options, extracted, partitions, sought, located, grouped

vars == <<text, parsed, configObject, snapshot, bundle, apps, mutations,
          files, delivered, awaiting, rx, attempted, merged,
          tmosVersion, jobs, phase, listed, hostname,
          options, extracted, partitions, sought, located, grouped>>

parseVars == <<text, parsed>>
digVars == <<snapshot, bundle, apps, mutations>>
loadVars == <<files, delivered, awaiting, rx, attempted, merged,
              tmosVersion, jobs, phase, listed, hostname>>
callVars == <<options, extracted, partitions, sought, located, grouped>>

MaxLines == 4

LineVocabulary ==
    { <<"l", "t", "m", " ", "p", "o", "o", "l", " ", "/", "C", "/", "p", " ", "{">>, <<"l", "t", "m", " ", "r", "u", "l", "e", " ", "/", "C", "/", "r", " ", "{">>, <<"l", "t", "m", " ", "n", "o", "d", "e", " ", "/", "C", "/", "a", "%", "1", " ", "{">>,
      <<" ", " ", " ", " ", "a", " ", "b">>, <<" ", " ", " ", " ", "m", " ", "{">>, <<" ", " ", " ", " ", "}">>, <<"}">>, <<>> }

Texts == UNION {[1..n -> LineVocabulary] : n \in 0..MaxLines}

IdleDig == snapshot = <<>> /\ bundle = <<>> /\ apps = <<>> /\ mutations = 0
IdleLoad ==
    /\ files = <<>> /\ delivered = 0 /\ awaiting = <<>> /\ rx = FALSE
    /\ attempted = <<>> /\ merged = <<>>
    /\ tmosVersion = <<>> /\ jobs = <<>> /\ phase = "idle" /\ listed = FALSE
    /\ hostname = <<>>

IdleCall ==
    /\ options = <<>> /\ extracted = <<>> /\ partitions = <<>>
    /\ sought = <<>> /\ located = <<>> /\ grouped = <<>>

ParseInit ==
    /\ text \in Texts
    /\ parsed = <<>>
    /\ configObject = <<>>
    /\ IdleDig
    /\ IdleLoad
    /\ IdleCall

\* one call of parseConfig(configText)
Parse ==
    /\ parsed = <<>>
    /\ parsed' = <<parseConfig(text)>>
    /\ UNCHANGED <<text, configObject, digVars, loadVars, callVars>>

ParseNext == Parse

ParseSpec == ParseInit /\ [][ParseNext]_vars

(***************************************************************************)
(* Properties of one parseConfig call.                                     *)
(***************************************************************************)
NonEmptyLines(lines) == SelectSeq(lines, LAMBDA line : line # <<>>)

\* the index of the first root-level object of the lines, 0 when none
FirstRoot(lines) ==
    IF \E i \in 1..Len(lines) : IsOpener(lines[i]) \/ IsOneLineObject(lines[i])
    THEN CHOOSE i \in 1..Len(lines) :
            /\ IsOpener(lines[i]) \/ IsOneLineObject(lines[i])
            /\ \A j \in 1..(i - 1) : ~(IsOpener(lines[j]) \/ IsOneLineObject(lines[j]))
    ELSE 0

\* brace depth of the object opened at lines[i], after lines[j]
RECURSIVE BraceDepth(_, _, _, _)
BraceDepth(lines, i, j, inRule) ==
    IF j <= i THEN 1
    ELSE BraceDepth(lines, i, j - 1, inRule)
         + (IF inRule /\ SkippedInRule(lines[j]) THEN 0
            ELSE OpenCount(lines[j]) - CloseCount(lines[j]))

\* end of input is reached before the depth of the object opened at lines[i]
\* returns to zero
OpenAtEnd(lines, i) ==
    \A j \in (i + 1)..Len(lines) : BraceDepth(lines, i, j, isRule(lines[i])) # 0

\* the first root object is a script object left open at the end of input
ScriptOpenAtEnd(lines) ==
    /\ FirstRoot(lines) # 0
    /\ IsOpener(lines[FirstRoot(lines)])
    /\ isRule(lines[FirstRoot(lines)])
    /\ OpenAtEnd(lines, FirstRoot(lines))

\* no line after the first root object looks like the start of a script
\* object, so the scan of that object is not cut short
NoLaterScript(lines) ==
    \A j \in (FirstRoot(lines) + 1)..Len(lines) : ~isRule(lines[j])

\* the first root object is a non-script object left open at the end of input
ObjectOpenAtEnd(lines) ==
    /\ FirstRoot(lines) # 0
    /\ IsOpener(lines[FirstRoot(lines)])
    /\ ~isRule(lines[FirstRoot(lines)])
    /\ OpenAtEnd(lines, FirstRoot(lines))

\* C5: whenever a non-script root object is missing its closing brace,
\* parseConfig raises an error that names the object's declaration line.
C5_MissingBraceNamesDeclaration ==
    (parsed # <<>> /\ ObjectOpenAtEnd(NonEmptyLines(text)))
        => /\ ~parsed[1].ok
           /\ Includes(parsed[1].message,
                       NonEmptyLines(text)[FirstRoot(NonEmptyLines(text))])

\* C6 as stated: whenever the end of input is reached before the brace depth
\* of a script object (ltm rule, gtm rule, pem irule) returns to zero,
\* parseConfig throws 'iRule parsing error, ...' citing the opening line of
\* that object, not rewrapped as a generic parse error.
C6_UnterminatedScriptAlwaysThrows ==
    (parsed # <<>> /\ ScriptOpenAtEnd(NonEmptyLines(text)))
        => parsed[1] = Thrown(IRuleErrorPrefix
                              \o NonEmptyLines(text)[FirstRoot(NonEmptyLines(text))])

\* C6: when the end of input is reached before the brace depth of a script
\* object returns to zero, and no line after its opening line looks like the
\* start of another script object, parseConfig throws 'iRule parsing error,
\* ...' citing the opening line, not rewrapped as a generic parse error.
C6_UnterminatedScriptError ==
    (parsed # <<>> /\ ScriptOpenAtEnd(NonEmptyLines(text)) /\ NoLaterScript(NonEmptyLines(text)))
        => parsed[1] = Thrown(IRuleErrorPrefix
                              \o NonEmptyLines(text)[FirstRoot(NonEmptyLines(text))])

\* a rule opener, one body line and no closing brace has been parsed
C6_Witness ==
    /\ parsed # <<>>
    /\ Len(text) >= 2
    /\ text[1] = <<"l", "t", "m", " ", "r", "u", "l", "e", " ", "/", "C", "/", "r", " ", "{">>
    /\ text[2] = <<" ", " ", " ", " ", "m", " ", "{">>
    /\ ScriptOpenAtEnd(NonEmptyLines(text))
    /\ NoLaterScript(NonEmptyLines(text))
    /\ ~parsed[1].ok

\* the map-typed objects stored under a qualified name (a key that starts
\* with '/') at the root level of the tree, as <<name, object>> pairs
RECURSIVE RootObjects(_)
RootObjects(m) ==
    UNION { IF StartsWith(m[i].k, <<"/">>)
            THEN (IF IsMap(m[i].v) THEN {<<m[i].k, m[i].v.m>>} ELSE {})
            ELSE (IF IsMap(m[i].v) THEN RootObjects(m[i].v.m) ELSE {})
          : i \in 1..Len(m) }

FirstSegment(qualifiedName) == Split(qualifiedName, "/")[2]

\* from lines[i] on, the text is a sequence of complete root objects: each
\* opening line is followed by a line where its brace depth returns to zero
RECURSIVE WellFormed(_, _)
WellFormed(lines, i) ==
    IF i > Len(lines) THEN TRUE
    ELSE IF lines[i] = <<>> \/ IsOneLineObject(lines[i]) THEN WellFormed(lines, i + 1)
    ELSE IF IsOpener(lines[i]) /\ ~OpenAtEnd(lines, i)
    THEN WellFormed(lines,
                    1 + (CHOOSE j \in (i + 1)..Len(lines) :
                            /\ BraceDepth(lines, i, j, isRule(lines[i])) = 0
                            /\ \A k \in (i + 1)..(j - 1) :
                                  BraceDepth(lines, i, k, isRule(lines[i])) # 0))
    ELSE FALSE

\* C7: for every well-formed text, every map-typed object stored under a
\* qualified name has a partition field equal to the first '/'-delimited
\* segment of that name.
C7_PartitionIsFirstSegment ==
    (parsed # <<>> /\ parsed[1].ok /\ WellFormed(text, 1))
        => \A o \in RootObjects(parsed[1].tree.m) :
              /\ Has(o[2], K_partition)
              /\ Get(o[2], K_partition) = VStr(FirstSegment(o[1]))

\* the text is exactly one root object: an opener, a body, the closing line
SingleObject(lines) ==
    /\ Len(lines) >= 2
    /\ IsOpener(lines[1])
    /\ ~isRule(lines[1])
    /\ lines[Len(lines)] = <<"}">>
    /\ \A j \in 2..(Len(lines) - 1) : BraceDepth(lines, 1, j, FALSE) > 0
    /\ BraceDepth(lines, 1, Len(lines), FALSE) = 0

\* C8: the line field of a root-level object equals the input lines strictly
\* between its opening line and its matching closing line, joined with
\* newlines, verbatim.
C8_LineIsVerbatimBody ==
    (parsed # <<>> /\ parsed[1].ok /\ SingleObject(text))
        => \A o \in RootObjects(parsed[1].tree.m) :
              /\ Has(o[2], K_line)
              /\ Get(o[2], K_line)
                   = VStr(Join(SubSeq(text, 2, Len(text) - 1), <<"\n">>))

(***************************************************************************)
(* The resolver over the ConfigTree of one parsed text.  The text is the   *)
(* virtual servers followed by any of the objects they refer to.           *)
(***************************************************************************)
VirtualBlock ==
    << <<"l", "t", "m", " ", "v", "i", "r", "t", "u", "a", "l", " ", "/", "C", "/", "v", " ", "{">>,
       <<" ", " ", " ", " ", "p", "o", "o", "l", " ", "/", "C", "/", "p">>,
       <<" ", " ", " ", " ", "r", "u", "l", "e", "s", " ", "{">>,
       <<" ", " ", " ", " ", " ", " ", " ", " ", "/", "C", "/", "r">>,
       <<" ", " ", " ", " ", "}">>,
       <<" ", " ", " ", " ", "p", "o", "l", "i", "c", "i", "e", "s", " ", "{">>,
       <<" ", " ", " ", " ", " ", " ", " ", " ", "/", "C", "/", "y">>,
       <<" ", " ", " ", " ", "}">>,
       <<"}">>,
       <<"l", "t", "m", " ", "v", "i", "r", "t", "u", "a", "l", " ", "/", "C", "/", "u", " ", "{">>,
       <<" ", " ", " ", " ", "d", "e", "s", "t", "i", "n", "a", "t", "i", "o", "n", " ", "1", ":", "8", "0">>,
       <<"}">> >>

PoolBlock ==
    << <<"l", "t", "m", " ", "p", "o", "o", "l", " ", "/", "C", "/", "p", " ", "{">>,
       <<" ", " ", " ", " ", "m", "e", "m", "b", "e", "r", "s", " ", "{">>,
       <<" ", " ", " ", " ", " ", " ", " ", " ", "/", "C", "/", "a", ":", "8", "0", " ", "{">>,
       <<" ", " ", " ", " ", " ", " ", " ", " ", " ", " ", " ", " ", "a", "d", "d", "r", "e", "s", "s", " ", "1">>,
       <<" ", " ", " ", " ", " ", " ", " ", " ", "}">>,
       <<" ", " ", " ", " ", " ", " ", " ", " ", "/", "C", "/", "b", ":", "8", "0", " ", "{">>,
       <<" ", " ", " ", " ", " ", " ", " ", " ", " ", " ", " ", " ", "a", "d", "d", "r", "e", "s", "s", " ", "2">>,
       <<" ", " ", " ", " ", " ", " ", " ", " ", "}">>,
       <<" ", " ", " ", " ", "}">>,
       <<" ", " ", " ", " ", "m", "o", "n", "i", "t", "o", "r", " ", "/", "C", "/", "m">>,
       <<"}">> >>

NodeABlock == << <<"l", "t", "m", " ", "n", "o", "d", "e", " ", "/", "C", "/", "a", " ", "{">>, <<" ", " ", " ", " ", "a", "d", "d", "r", "e", "s", "s", " ", "1">>, <<"}">> >>

NodeBBlock == << <<"l", "t", "m", " ", "n", "o", "d", "e", " ", "/", "C", "/", "b", " ", "{">>, <<" ", " ", " ", " ", "a", "d", "d", "r", "e", "s", "s", " ", "2">>, <<"}">> >>

MonitorBlock == << <<"l", "t", "m", " ", "m", "o", "n", "i", "t", "o", "r", " ", "h", "t", "t", "p", " ", "/", "C", "/", "m", " ", "{">>, <<" ", " ", " ", " ", "i", "n", "t", "e", "r", "v", "a", "l", " ", "5">>, <<"}">> >>

RuleBlock == << <<"l", "t", "m", " ", "r", "u", "l", "e", " ", "/", "C", "/", "r", " ", "{">>, <<" ", " ", " ", " ", "l", "o", "g", " ", "x">>, <<"}">> >>

PolicyBlock == << <<"l", "t", "m", " ", "p", "o", "l", "i", "c", "y", " ", "/", "C", "/", "y", " ", "{">>, <<" ", " ", " ", " ", "p", "o", "o", "l", " ", "/", "C", "/", "p">>, <<"}">> >>

GslbBlock ==
    << <<"g", "t", "m", " ", "w", "i", "d", "e", "i", "p", " ", "a", " ", "/", "C", "/", "w", " ", "{">>,
       <<" ", " ", " ", " ", "p", "o", "o", "l", "s", " ", "{">>,
       <<" ", " ", " ", " ", " ", " ", " ", " ", "/", "C", "/", "g", " ", "{">>,
       <<" ", " ", " ", " ", " ", " ", " ", " ", " ", " ", " ", " ", "o", "r", "d", "e", "r", " ", "0">>,
       <<" ", " ", " ", " ", " ", " ", " ", " ", "}">>,
       <<" ", " ", " ", " ", "}">>,
       <<"}">>,
       <<"g", "t", "m", " ", "p", "o", "o", "l", " ", "a", " ", "/", "C", "/", "g", " ", "{">>,
       <<" ", " ", " ", " ", "m", "e", "m", "b", "e", "r", "s", " ", "{">>,
       <<" ", " ", " ", " ", " ", " ", " ", " ", "/", "C", "/", "s", ":", "v", " ", "{">>,
       <<" ", " ", " ", " ", " ", " ", " ", " ", " ", " ", " ", " ", "s", "e", "r", "v", "e", "r", " ", "/", "C", "/", "s">>,
       <<" ", " ", " ", " ", " ", " ", " ", " ", " ", " ", " ", " ", "v", "s", " ", "v">>,
       <<" ", " ", " ", " ", " ", " ", " ", " ", "}">>,
       <<" ", " ", " ", " ", "}">>,
       <<"}">>,
       <<"g", "t", "m", " ", "s", "e", "r", "v", "e", "r", " ", "/", "C", "/", "s", " ", "{">>,
       <<" ", " ", " ", " ", "v", "i", "r", "t", "u", "a", "l", "-", "s", "e", "r", "v", "e", "r", "s", " ", "{">>,
       <<" ", " ", " ", " ", " ", " ", " ", " ", "v", " ", "{">>,
       <<" ", " ", " ", " ", " ", " ", " ", " ", " ", " ", " ", " ", "d", "e", "s", "t", "i", "n", "a", "t", "i", "o", "n", " ", "1", ":", "8", "0">>,
       <<" ", " ", " ", " ", " ", " ", " ", " ", " ", " ", " ", " ", "d", "e", "p", "e", "n", "d", "s", "-", "o", "n", " ", "{", " ", "x", " ", "}">>,
       <<" ", " ", " ", " ", " ", " ", " ", " ", "}">>,
       <<" ", " ", " ", " ", "}">>,
       <<"}">> >>

OptionalBlocks ==
    <<PoolBlock, NodeABlock, NodeBBlock, MonitorBlock, RuleBlock, PolicyBlock, GslbBlock>>

\* the virtual servers and the chosen blocks, in the order of OptionalBlocks
TextOf(chosen) ==
    VirtualBlock
    \o Flatten([i \in 1..Len(OptionalBlocks) |->
                   IF i \in chosen THEN OptionalBlocks[i] ELSE <<>>])

MaxMutations == 1

DigInit ==
    /\ \E chosen \in SUBSET (1..Len(OptionalBlocks)) :
          text = TextOf(chosen)
    /\ parsed = <<>>
    /\ configObject = parseConfig(text).tree
    /\ snapshot = configObject
    /\ bundle = <<>>
    /\ apps = <<>>
    /\ mutations = 0
    /\ IdleLoad
    /\ IdleCall

\* BigipConfig.apps(app): the bundle of one virtual server of the tree
DigVs(vsName) ==
    /\ bundle' = <<digVsConfig(vsName,
                               Lookup(configObject, <<K_ltm, <<"v", "i", "r", "t", "u", "a", "l">>, vsName>>)[1].m,
                               configObject)>>
    /\ UNCHANGED <<parseVars, configObject, snapshot, apps, mutations, loadVars, callVars>>

\* BigipConfig.digGslb(): the bundles of the wideips of the tree
Fqdns ==
    /\ apps' = <<fqdns(configObject, 1, <<>>)>>
    /\ UNCHANGED <<parseVars, configObject, snapshot, bundle, mutations, loadVars, callVars>>

\* the paths of the objects and arrays of a value
RECURSIVE ContainerPaths(_)
ContainerPaths(v) ==
    IF v.t = "map"
    THEN {<<>>} \cup UNION {{<<v.m[i].k>> \o p : p \in ContainerPaths(v.m[i].v)}
                             : i \in 1..Len(v.m)}
    ELSE IF v.t = "list"
    THEN {<<>>} \cup UNION {{<<NatToStr(i - 1)>> \o p : p \in ContainerPaths(v.a[i])}
                             : i \in 1..Len(v.a)}
    ELSE IF v.t \in {"arr", "ref"} THEN {<<>>}
    ELSE {}

\* a write to an object or an array: obj.x = 'x', arr.push('x')
Written(v) ==
    IF v.t = "map" THEN VMap(Put(v.m, <<"x">>, VStr(<<"x">>)))
    ELSE IF v.t = "list" THEN VList(Append(v.a, VStr(<<"x">>)))
    ELSE VArr(Append(v.a, <<"x">>))

\* the value at a path of v
RECURSIVE At(_, _)
At(v, path) ==
    IF path = <<>> THEN v
    ELSE IF v.t = "map" THEN At(Get(v.m, Head(path)), Tail(path))
    ELSE At(v.a[NumVal(Head(path)) + 1], Tail(path))

\* v with the object or array at a path written to
RECURSIVE WriteAt(_, _)
WriteAt(v, path) ==
    IF path = <<>> THEN Written(v)
    ELSE IF v.t = "map"
    THEN VMap(Put(v.m, Head(path), WriteAt(Get(v.m, Head(path)), Tail(path))))
    ELSE VList([i \in 1..Len(v.a) |->
                  IF i = NumVal(Head(path)) + 1 THEN WriteAt(v.a[i], Tail(path)) ELSE v.a[i]])

\* the caller writes to an object or an array of the bundle digVsConfig
\* returned
MutateBundle ==
    /\ mutations < MaxMutations
    /\ bundle # <<>> /\ bundle[1].ok
    /\ \E path \in ContainerPaths(bundle[1].app) :
          IF At(bundle[1].app, path).t = "ref"
          THEN /\ configObject' = WriteAt(configObject, At(bundle[1].app, path).path)
               /\ UNCHANGED bundle
          ELSE /\ bundle' = <<[bundle[1] EXCEPT !.app = WriteAt(@, path)]>>
               /\ UNCHANGED configObject
    /\ mutations' = mutations + 1
    /\ UNCHANGED <<parseVars, snapshot, apps, loadVars, callVars>>

\* the caller writes to an object or an array of a bundle fqdns returned
MutateGslb ==
    /\ mutations < MaxMutations
    /\ apps # <<>> /\ apps[1].ok
    /\ \E n \in 1..Len(apps[1].apps) :
       \E path \in ContainerPaths(apps[1].apps[n]) :
          IF At(apps[1].apps[n], path).t = "ref"
          THEN /\ configObject' = WriteAt(configObject, At(apps[1].apps[n], path).path)
               /\ UNCHANGED apps
          ELSE /\ apps' = <<[apps[1] EXCEPT !.apps[n] = WriteAt(@, path)]>>
               /\ UNCHANGED configObject
    /\ mutations' = mutations + 1
    /\ UNCHANGED <<parseVars, snapshot, bundle, loadVars, callVars>>

VsNames == {<<"/", "C", "/", "v">>, <<"/", "C", "/", "u">>}

DigNext ==
    \/ \E vsName \in VsNames : DigVs(vsName)
    \/ Fqdns
    \/ MutateBundle
    \/ MutateGslb

DigSpec == DigInit /\ [][DigNext]_vars

(***************************************************************************)
(* Properties of the resolver.                                             *)
(***************************************************************************)
\* C1: digVsConfig never throws or rejects when the virtual server refers to
\* an object that is absent from the ConfigTree: it always returns a bundle.
C1_DigVsConfigReturnsBundle == bundle # <<>> => bundle[1].ok

\* the node names of the members of a pool whose node exists, in member order
MemberNodes(pool) ==
    LET members == SelectSeq(Keys(Get(pool.m, K_members).m), LAMBDA k : k # K_line)
        names == [i \in 1..Len(members) |-> Split(members[i], ":")[1]]
    IN  SelectSeq(names, LAMBDA n : Lookup(configObject, <<K_ltm, <<"n", "o", "d", "e">>, n>>) # <<>>)

\* the monitor of a pool when some monitor type of the tree declares it
ResolvedMonitors(pool) ==
    LET types == Lookup(configObject, <<K_ltm, K_monitor>>)
    IN  IF /\ Has(pool.m, K_monitor)
           /\ types # <<>>
           /\ \E i \in 1..Len(types[1].m) :
                 Has(types[1].m[i].v.m, Get(pool.m, K_monitor).s)
        THEN <<Get(pool.m, K_monitor).s>>
        ELSE <<>>

\* C2: in a bundle of digVsConfig lines[0] is the virtual server's
\* declaration and, when its pool exists, there follow the pool's line, one
\* node line per member whose node exists, in member order, then one line
\* per resolved monitor; rule and policy lines come only after these.
C2_BundleLineOrder ==
    \A vsName \in VsNames :
        LET vs == Lookup(configObject, <<K_ltm, <<"v", "i", "r", "t", "u", "a", "l">>, vsName>>)[1].m
            lines == Get(bundle[1].app.m, K_lines).a
            pool == IF Has(vs, K_pool)
                    THEN Lookup(configObject, <<K_ltm, K_pool, Get(vs, K_pool).s>>)
                    ELSE <<>>
        IN  (bundle # <<>> /\ bundle[1].ok
             /\ Get(bundle[1].app.m, K_name) = Get(vs, K_name))
            => /\ lines[1] = <<"l", "t", "m", " ", "v", "i", "r", "t", "u", "a", "l", " ">> \o vsName \o <<" ", "{">> \o Get(vs, K_line).s \o <<"}">>
               /\ pool # <<>> =>
                    LET nodes == MemberNodes(pool[1])
                        monitors == ResolvedMonitors(pool[1])
                        n == Len(nodes)
                        k == Len(monitors)
                    IN  /\ Len(lines) >= 2 + n + k
                        /\ lines[2] = <<"l", "t", "m", " ", "p", "o", "o", "l", " ">> \o Get(vs, K_pool).s \o <<" ", "{">>
                                      \o Get(pool[1].m, K_line).s \o <<"}">>
                        /\ \A i \in 1..n :
                              StartsWith(lines[2 + i], <<"l", "t", "m", " ", "n", "o", "d", "e", " ">> \o nodes[i] \o <<" ", "{">>)
                        /\ \A i \in 1..k :
                              /\ StartsWith(lines[2 + n + i], <<"l", "t", "m", " ", "m", "o", "n", "i", "t", "o", "r", " ">>)
                              /\ Includes(lines[2 + n + i], <<" ">> \o monitors[i] \o <<" ", "{">>)
                        /\ \A j \in 1..Len(lines) :
                              (StartsWith(lines[j], <<"l", "t", "m", " ", "r", "u", "l", "e", " ">>)
                               \/ StartsWith(lines[j], <<"l", "t", "m", " ", "p", "o", "l", "i", "c", "y", " ">>)) => j > 2 + n + k

\* a bundle with the pool's line, two node lines, a monitor line and a rule
C2_Witness ==
    /\ bundle # <<>> /\ bundle[1].ok
    /\ LET lines == Get(bundle[1].app.m, K_lines).a
       IN  /\ Len(lines) >= 7
           /\ StartsWith(lines[2], <<"l", "t", "m", " ", "p", "o", "o", "l", " ", "/", "C", "/", "p", " ", "{">>)
           /\ StartsWith(lines[3], <<"l", "t", "m", " ", "n", "o", "d", "e", " ", "/", "C", "/", "a", " ", "{">>)
           /\ StartsWith(lines[4], <<"l", "t", "m", " ", "n", "o", "d", "e", " ", "/", "C", "/", "b", " ", "{">>)
           /\ StartsWith(lines[5], <<"l", "t", "m", " ", "m", "o", "n", "i", "t", "o", "r", " ", "h", "t", "t", "p", " ", "/", "C", "/", "m", " ", "{">>)
           /\ StartsWith(lines[6], <<"l", "t", "m", " ", "r", "u", "l", "e", " ", "/", "C", "/", "r", " ", "{">>)
           /\ StartsWith(lines[7], <<"l", "t", "m", " ", "p", "o", "l", "i", "c", "y", " ", "/", "C", "/", "y", " ", "{">>)

\* C3: whatever digVsConfig and fqdns calls are made and however the bundles
\* they returned are written to later, the ConfigTree stays deep-equal to
\* what it was before the first call.
C3_TreeNeverChanges == configObject = snapshot

(***************************************************************************)
(* The multi-source entry points: BigipConfig.parseConf, called once for   *)
(* every 'conf' event of loadParseAsync, and parseConfigs.                 *)
(***************************************************************************)
SourceA ==
    [fileName |-> <<"a", ".", "c", "o", "n", "f">>,
     content |-> << <<"#", "T", "M", "S", "H", "-", "V", "E", "R", "S", "I", "O", "N", ":", " ", "1", "5">>, <<"l", "t", "m", " ", "p", "o", "o", "l", " ", "/", "C", "/", "p", " ", "{">>, <<" ", " ", " ", " ", "a", " ", "1">>, <<"}">> >>]

SourceB ==
    [fileName |-> <<"b", ".", "c", "o", "n", "f">>,
     content |-> << <<"#", "T", "M", "S", "H", "-", "V", "E", "R", "S", "I", "O", "N", ":", " ", "1", "6">>, <<"l", "t", "m", " ", "p", "o", "o", "l", " ", "/", "C", "/", "p", " ", "{">>, <<" ", " ", " ", " ", "a", " ", "2">>, <<"}">> >>]

SourceNode ==
    [fileName |-> <<"n", ".", "c", "o", "n", "f">>,
     content |-> << <<"#", "T", "M", "S", "H", "-", "V", "E", "R", "S", "I", "O", "N", ":", " ", "1", "5">>, <<"l", "t", "m", " ", "n", "o", "d", "e", " ", "/", "C", "/", "n", " ", "{">>, <<" ", " ", " ", " ", "b", " ", "1">>, <<"}">> >>]

\* a rule that is not closed: parseConfig throws
SourceBroken ==
    [fileName |-> <<"r", ".", "c", "o", "n", "f">>,
     content |-> << <<"#", "T", "M", "S", "H", "-", "V", "E", "R", "S", "I", "O", "N", ":", " ", "1", "5">>, <<"l", "t", "m", " ", "r", "u", "l", "e", " ", "/", "C", "/", "r", " ", "{">>, <<" ", " ", " ", " ", "l", "o", "g", " ", "x">> >>]

SourceProfileBase ==
    [fileName |-> <<"c", "o", "n", "f", "i", "g", "/", "p", "r", "o", "f", "i", "l", "e", "_", "b", "a", "s", "e", ".", "c", "o", "n", "f">>,
     content |-> << <<"#", "T", "M", "S", "H", "-", "V", "E", "R", "S", "I", "O", "N", ":", " ", "1", "5">>, <<"l", "t", "m", " ", "p", "o", "o", "l", " ", "/", "C", "/", "d", " ", "{">>, <<" ", " ", " ", " ", "a", " ", "0">>, <<"}">> >>]

SourceScript ==
    [fileName |-> <<"c", "o", "n", "f", "i", "g", "/", "b", "i", "g", "i", "p", "_", "s", "c", "r", "i", "p", "t", ".", "c", "o", "n", "f">>,
     content |-> << <<"#", "T", "M", "S", "H", "-", "V", "E", "R", "S", "I", "O", "N", ":", " ", "1", "5">>, <<"l", "t", "m", " ", "p", "o", "o", "l", " ", "/", "C", "/", "s", " ", "{">>, <<" ", " ", " ", " ", "a", " ", "3">>, <<"}">> >>]

Sources == {SourceA, SourceB, SourceNode, SourceBroken, SourceProfileBase, SourceScript}

MaxSources == 3

\* the files of one archive, in the order they are read: names are unique
FileLists ==
    {fs \in UNION {[1..n -> Sources] : n \in 1..MaxSources} :
        \A i, j \in 1..Len(fs) : fs[i] = fs[j] => i = j}

LoadInit ==
    /\ files \in FileLists
    /\ delivered = 0
    /\ awaiting = <<>>
    /\ rx = FALSE
    /\ attempted = <<>>
    /\ merged = <<>>
    /\ tmosVersion = <<>>
    /\ jobs = <<>>
    /\ phase = "stream"
    /\ listed = TRUE
    /\ hostname = <<>>
    /\ configObject = EmptyMap
    /\ text = <<>>
    /\ parsed = <<>>
    /\ IdleDig
    /\ IdleCall

\* RegExTree.getTMOSversion(content): the version the '#TMSH-VERSION: '
\* line of the content declares; <<>> when there is none
VersionMark == <<"#", "T", "M", "S", "H", "-", "V", "E", "R", "S", "I", "O", "N", ":", " ">>

getTMOSversion(content) ==
    With(SelectSeq(content, LAMBDA line : StartsWith(line, VersionMark)), LAMBDA declared :
    IF declared = <<>> THEN <<>>
    ELSE SubSeq(declared[1], Len(VersionMark) + 1, Len(declared[1])))

\* a version that every call sets anew
setTmosVersionAlways(isSet, version, conf) == <<getTMOSversion(conf.content)>>

\* setTmosVersion(x), lines 302-318: the tmosVersion it leaves; only the
\* first call, which builds the regex tree, sets it
setTmosVersion(isSet, version, conf) ==
    IF isSet THEN version ELSE <<getTMOSversion(conf.content)>>

\* a promise job put at the head of the queue
EnqueueFirst(queue, job) == <<job>> \o queue

\* a promise job is queued: jobs run in the order they were queued
Enqueue(queue, job) == Append(queue, job)

\* lines 226-246: parseConfig in its try block, then deepmergeInto
ParseAndMerge(tree, conf) ==
    With(parseConfig(conf.content), LAMBDA oneParsed :
    IF oneParsed.ok THEN deepmergeInto(tree, oneParsed.tree, <<>>) ELSE tree)

\* a 'conf' event: parseConf(conf) runs up to its first await, or, when the
\* version is already set, to its end
ParseConf ==
    /\ delivered < Len(files)
    /\ delivered' = delivered + 1
    /\ LET conf == files[delivered + 1] IN
       IF conf.fileName \in {<<"c", "o", "n", "f", "i", "g", "/", "p", "r", "o", "f", "i", "l", "e", "_", "b", "a", "s", "e", ".", "c", "o", "n", "f">>, <<"c", "o", "n", "f", "i", "g", "/", "l", "o", "w", "_", "p", "r", "o", "f", "i", "l", "e", "_", "b", "a", "s", "e", ".", "c", "o", "n", "f">>}
       THEN UNCHANGED <<awaiting, rx, attempted, configObject, tmosVersion, jobs>>
       ELSE IF ~rx
       THEN \* setTmosVersion builds the regex tree; the call is suspended
            /\ rx' = TRUE
            /\ tmosVersion' = setTmosVersion(rx, tmosVersion, conf)
            /\ awaiting' = Append(awaiting, delivered + 1)
            /\ jobs' = Enqueue(jobs, "resume")
            /\ UNCHANGED <<attempted, configObject>>
       ELSE \* setTmosVersion only compares and logs
            /\ tmosVersion' = setTmosVersion(rx, tmosVersion, conf)
            /\ configObject' = ParseAndMerge(configObject, conf)
            /\ attempted' = Append(attempted, delivered + 1)
            /\ UNCHANGED <<awaiting, rx, jobs>>
    /\ UNCHANGED <<parseVars, digVars, callVars, files, merged, phase, listed, hostname>>

\* the call suspended at "await this.setTmosVersion(conf)" continues
ResumeParseConf ==
    /\ awaiting # <<>>
    /\ jobs # <<>> /\ Head(jobs) = "resume"
    /\ jobs' = Tail(jobs)
    /\ awaiting' = Tail(awaiting)
    /\ configObject' = ParseAndMerge(configObject, files[Head(awaiting)])
    /\ attempted' = Append(attempted, Head(awaiting))
    /\ UNCHANGED <<parseVars, digVars, callVars, files, delivered, rx, merged,
                   tmosVersion, phase, listed, hostname>>

\* parseConfigs(files) over the same files
ParseConfigs ==
    /\ merged = <<>>
    /\ merged' = <<parseConfigs(files)>>
    /\ UNCHANGED <<parseVars, digVars, callVars, configObject, files, delivered, awaiting, rx,
                   attempted, tmosVersion, jobs, phase, listed, hostname>>

LoadNext == ParseConf \/ ResumeParseConf \/ ParseConfigs

LoadSpec == LoadInit /\ [][LoadNext]_vars

(***************************************************************************)
(* Properties of the multi-source entry points.                            *)
(***************************************************************************)
\* every 'conf' event has been handled and no parseConf call is suspended
AllCompleted == delivered = Len(files) /\ awaiting = <<>>

\* the sources among the given indices that parse
Parsing(indices) == SelectSeq(indices, LAMBDA i : parseConfig(files[i].content).ok)

\* the tree deepmergeInto builds from the sources that parse, in the order
\* parseConf handled them
RECURSIVE MergedInto(_, _)
MergedInto(tree, indices) ==
    IF indices = <<>> THEN tree
    ELSE MergedInto(deepmergeInto(tree, parseConfig(files[Head(indices)].content).tree, <<>>),
                    Tail(indices))

\* the tree deepMerge builds from the files that parse and are not skipped
RECURSIVE Merged(_, _)
Merged(tree, indices) ==
    IF indices = <<>> THEN tree
    ELSE Merged(deepMerge(tree, parseConfig(files[Head(indices)].content).tree.m),
                Tail(indices))

\* C4: a source that fails to parse contributes nothing and every other
\* source is still merged, by parseConf (configObject) and by parseConfigs.
C4_FailedSourceContributesNothing ==
    /\ (AllCompleted /\ Len(files) >= 2)
          => configObject = MergedInto(EmptyMap, Parsing(attempted))
    /\ (merged # <<>> /\ Len(files) >= 2) =>
          /\ merged[1].ok
          /\ merged[1].tree
               = VMap(Merged(<<>>, Parsing(SelectSeq([i \in 1..Len(files) |-> i],
                                  LAMBDA i : ~Skipped(files[i].fileName)))))

\* the position of a file in the archive, 0 when it is not in it
Position(conf) ==
    IF \E i \in 1..Len(files) : files[i] = conf
    THEN CHOOSE i \in 1..Len(files) : files[i] = conf
    ELSE 0

\* C10: when two sources that define the same scalar are handed to parseConf
\* one after the other, configObject holds the value of the one handed over
\* last once both calls have completed.
C10_LastSubmittedWins ==
    (AllCompleted /\ Position(SourceA) # 0 /\ Position(SourceB) # 0)
        => Lookup(configObject, <<K_ltm, K_pool, <<"/", "C", "/", "p">>, <<"a">>>>)
             = <<VStr(IF Position(SourceA) < Position(SourceB) THEN <<"2">> ELSE <<"1">>)>>


(***************************************************************************)
(* ltm.ts: BigipConfig.apps(options) with a filter object, and             *)
(* BigipConfig.listPartitions().                                           *)
(***************************************************************************)
\* key.match(/^\/([^/]+)\//): <<>> for no match, <<match[1]>> otherwise
KeyPartition(key) ==
    IF Len(key) >= 3 /\ key[1] = "/" /\ key[2] # "/"
       /\ \E i \in 3..Len(key) : key[i] = "/"
    THEN <<SubSeq(key, 2, (CHOOSE i \in 3..Len(key) :
                              key[i] = "/" /\ \A j \in 3..(i - 1) : key[j] # "/") - 1)>>
    ELSE <<>>

\* Array.prototype.includes
SeqIncludes(seq, x) == \E i \in 1..Len(seq) : seq[i] = x

\* Object.keys(this.configObject.ltm.virtual), <<>> when there is none
VirtualKeys(configTree) ==
    With(Lookup(configTree, <<K_ltm, <<"v", "i", "r", "t", "u", "a", "l">>>>), LAMBDA virtual :
    IF virtual # <<>> /\ IsMap(virtual[1]) THEN Keys(virtual[1].m) ELSE <<>>)

\* an AppsFilterOptions: every field is <<>> when absent, <<value>> otherwise
FilterOptions(appNames, partition, partitionList) ==
    [apps |-> appNames, partition |-> partition, partitions |-> partitionList]

NoOptions == FilterOptions(<<>>, <<>>, <<>>)

\* lines 617-634
AppsToExtract(opts, configTree) ==
    IF opts.apps # <<>> /\ Len(opts.apps[1]) > 0
    THEN SelectSeq(opts.apps[1],
                   LAMBDA app : Lookup(configTree, <<K_ltm, <<"v", "i", "r", "t", "u", "a", "l">>, app>>) # <<>>)
    ELSE IF (opts.partition # <<>> /\ opts.partition[1] # <<>>) \/ opts.partitions # <<>>
    THEN With(IF opts.partitions # <<>> THEN opts.partitions[1] ELSE <<opts.partition[1]>>,
              LAMBDA wanted :
         SelectSeq(VirtualKeys(configTree),
                   LAMBDA app : KeyPartition(app) # <<>>
                                /\ SeqIncludes(wanted, KeyPartition(app)[1])))
    ELSE VirtualKeys(configTree)

\* lines 639-654: the bundles of the fulfilled digVsConfig calls; a rejected
\* call is logged and leaves nothing
ExtractLoop(keys, configTree) ==
    Flatten([i \in 1..Len(keys) |->
        With(digVsConfig(keys[i],
                         Lookup(configTree, <<K_ltm, <<"v", "i", "r", "t", "u", "a", "l">>, keys[i]>>)[1].m,
                         configTree),
             LAMBDA vsApp :
        IF vsApp.ok THEN <<vsApp.app>> ELSE <<>>)])

\* apps(options) for an options object (lines 610-658)
extractApps(opts, configTree) ==
    IF VirtualKeys(configTree) = <<>> THEN <<>>
    ELSE ExtractLoop(AppsToExtract(opts, configTree), configTree)

\* the UTF-16 code unit of a character of a name
UpperCase == <<"A", "B", "C", "D", "E", "F", "G", "H", "I", "J", "K", "L", "M", "N", "O", "P", "Q", "R", "S", "T", "U", "V", "W", "X", "Y", "Z">>
LowerCase == <<"a", "b", "c", "d", "e", "f", "g", "h", "i", "j", "k", "l", "m", "n", "o", "p", "q", "r", "s", "t", "u", "v", "w", "x", "y", "z">>
NameMarks == <<[c |-> "-", u |-> 45], [c |-> ".", u |-> 46], [c |-> "_", u |-> 95]>>

CodeUnit(c) ==
    IF IsDigit(c) THEN 48 + DigitVal(c)
    ELSE IF \E i \in 1..26 : UpperCase[i] = c
    THEN 64 + (CHOOSE i \in 1..26 : UpperCase[i] = c)
    ELSE IF \E i \in 1..26 : LowerCase[i] = c
    THEN 96 + (CHOOSE i \in 1..26 : LowerCase[i] = c)
    ELSE NameMarks[CHOOSE i \in 1..Len(NameMarks) : NameMarks[i].c = c].u

\* the default comparison of Array.prototype.sort: a sorts before b
RECURSIVE SortsBefore(_, _)
SortsBefore(a, b) ==
    IF b = <<>> THEN FALSE
    ELSE IF a = <<>> THEN TRUE
    ELSE IF a[1] # b[1] THEN CodeUnit(a[1]) < CodeUnit(b[1])
    ELSE SortsBefore(Tail(a), Tail(b))

\* Array.prototype.sort() of strings
RECURSIVE JsSort(_)
JsSort(seq) ==
    IF seq = <<>> THEN <<>>
    ELSE With(JsSort(Tail(seq)), LAMBDA rest :
         With(Cardinality({i \in 1..Len(rest) : SortsBefore(rest[i], seq[1])}), LAMBDA n :
         SubSeq(rest, 1, n) \o <<seq[1]>> \o SubSeq(rest, n + 1, Len(rest))))

\* Set.prototype.add of every element of xs, in order
RECURSIVE AddAll(_, _)
AddAll(set, xs) ==
    IF xs = <<>> THEN set
    ELSE AddAll(IF SeqIncludes(set, xs[1]) THEN set ELSE Append(set, xs[1]), Tail(xs))

\* extractPartitions(obj): the partitions of the keys of obj
extractPartitions(set, obj) ==
    IF obj = <<>> \/ ~Truthy(obj[1]) THEN set
    ELSE AddAll(set, Flatten([i \in 1..Len(OwnEntries(obj[1])) |->
                                 KeyPartition(OwnEntries(obj[1])[i].k)]))

\* extractPartitions of every value of obj (profile, monitor, pool and wideip types)
RECURSIVE ExtractEach(_, _, _)
ExtractEach(set, values, i) ==
    IF i > Len(values) THEN set
    ELSE ExtractEach(extractPartitions(set, <<values[i].v>>), values, i + 1)

ExtractTypes(set, obj) ==
    IF obj = <<>> \/ ~Truthy(obj[1]) THEN set
    ELSE ExtractEach(set, OwnEntries(obj[1]), 1)

\* the categories listPartitions reads directly, in the order it reads them
LtmCategories == << <<"v", "i", "r", "t", "u", "a", "l">>, <<"p", "o", "o", "l">>, <<"n", "o", "d", "e">>, <<"r", "u", "l", "e">>, <<"p", "o", "l", "i", "c", "y">>, <<"s", "n", "a", "t", "p", "o", "o", "l">> >>

RECURSIVE ExtractCategories(_, _, _, _)
ExtractCategories(set, configTree, names, i) ==
    IF i > Len(names) THEN set
    ELSE ExtractCategories(
             extractPartitions(set, Lookup(configTree, <<K_ltm, names[i]>>)),
             configTree, names, i + 1)

listPartitions(configTree) ==
    With(ExtractCategories(<<>>, configTree, LtmCategories, 1), LAMBDA s1 :
    With(ExtractTypes(s1, Lookup(configTree, <<K_ltm, <<"p", "r", "o", "f", "i", "l", "e">>>>)), LAMBDA s2 :
    With(ExtractTypes(s2, Lookup(configTree, <<K_ltm, <<"m", "o", "n", "i", "t", "o", "r">>>>)), LAMBDA s3 :
    With(extractPartitions(s3, Lookup(configTree, <<K_gtm, K_server>>)), LAMBDA s4 :
    With(ExtractTypes(s4, Lookup(configTree, <<K_gtm, K_pool>>)), LAMBDA s5 :
    With(ExtractTypes(s5, Lookup(configTree, <<K_gtm, <<"w", "i", "d", "e", "i", "p">>>>)), LAMBDA s6 :
    With(extractPartitions(s6, Lookup(configTree, <<<<"a", "p", "m">>, <<"p", "r", "o", "f", "i", "l", "e">>, <<"a", "c", "c", "e", "s", "s">>>>)),
         LAMBDA s7 :
    With(extractPartitions(s7, Lookup(configTree, <<<<"a", "s", "m">>, <<"p", "o", "l", "i", "c", "y">>>>)), LAMBDA s8 :
    JsSort(s8)))))))))

(***************************************************************************)
(* apps(options) and listPartitions() over the ConfigTree of one parsed    *)
(* text: any of three virtual servers and of the objects around them.      *)
(***************************************************************************)
VirtualT == << <<"l", "t", "m", " ", "v", "i", "r", "t", "u", "a", "l", " ", "/", "T", "/", "w", " ", "{">>, <<" ", " ", " ", " ", "d", "e", "s", "t", "i", "n", "a", "t", "i", "o", "n", " ", "1", ":", "8", "0">>, <<"}">> >>

VirtualC ==
    << <<"l", "t", "m", " ", "v", "i", "r", "t", "u", "a", "l", " ", "/", "C", "/", "v", " ", "{">>,
       <<" ", " ", " ", " ", "p", "o", "o", "l", " ", "/", "C", "/", "p">>,
       <<" ", " ", " ", " ", "p", "r", "o", "f", "i", "l", "e", "s", " ", "{">>,
       <<" ", " ", " ", " ", " ", " ", " ", " ", "/", "C", "/", "h", " ", "{", " ", "}">>,
       <<" ", " ", " ", " ", "}">>,
       <<"}">> >>

VirtualDeep == << <<"l", "t", "m", " ", "v", "i", "r", "t", "u", "a", "l", " ", "/", "T", "/", "f", "/", "g", "/", "x", " ", "{">>, <<" ", " ", " ", " ", "d", "e", "s", "t", "i", "n", "a", "t", "i", "o", "n", " ", "2", ":", "8", "0">>, <<"}">> >>

SmallPoolBlock == << <<"l", "t", "m", " ", "p", "o", "o", "l", " ", "/", "C", "/", "p", " ", "{">>, <<" ", " ", " ", " ", "m", "i", "n", " ", "1">>, <<"}">> >>

LtmProfileBlock == << <<"l", "t", "m", " ", "p", "r", "o", "f", "i", "l", "e", " ", "h", "t", "t", "p", " ", "/", "C", "/", "h", " ", "{">>, <<" ", " ", " ", " ", "a", " ", "1">>, <<"}">> >>

ApmProfileBlock == << <<"a", "p", "m", " ", "p", "r", "o", "f", "i", "l", "e", " ", "a", "c", "c", "e", "s", "s", " ", "/", "C", "/", "h", " ", "{">>, <<" ", " ", " ", " ", "b", " ", "2">>, <<"}">> >>

AsmPolicyBlock == << <<"a", "s", "m", " ", "p", "o", "l", "i", "c", "y", " ", "/", "C", "/", "h", " ", "{">>, <<" ", " ", " ", " ", "c", " ", "3">>, <<"}">> >>

RouteBlock == << <<"n", "e", "t", " ", "r", "o", "u", "t", "e", " ", "/", "N", "/", "r", " ", "{">>, <<" ", " ", " ", " ", "g", "w", " ", "1">>, <<"}">> >>

AppsBlocks ==
    <<VirtualT, VirtualC, VirtualDeep, SmallPoolBlock, LtmProfileBlock,
      ApmProfileBlock, AsmPolicyBlock, RouteBlock>>

AppsTextOf(chosen) ==
    Flatten([i \in 1..Len(AppsBlocks) |-> IF i \in chosen THEN AppsBlocks[i] ELSE <<>>])

\* the filters of the calls: none, by partition, by partitions, by names
OptionsSet ==
    { NoOptions,
      FilterOptions(<<>>, <<<<"C">>>>, <<>>),
      FilterOptions(<<>>, <<<<"T">>>>, <<>>),
      FilterOptions(<<>>, <<>>, << <<<<"T">>, <<"C">>>> >>),
      FilterOptions(<< <<<<"/", "C", "/", "v">>>> >>, <<>>, <<>>),
      FilterOptions(<< <<<<"/", "T", "/", "w">>, <<"/", "X", "/", "n">>, <<"/", "C", "/", "v">>>> >>, <<>>, <<>>) }

AppsInit ==
    /\ \E chosen \in SUBSET (1..Len(AppsBlocks)) : text = AppsTextOf(chosen)
    /\ parsed = <<>>
    /\ configObject = parseConfig(text).tree
    /\ IdleDig
    /\ IdleLoad
    /\ IdleCall

\* one call of apps(options) with an options object
Apps(opts) ==
    /\ options' = <<opts>>
    /\ extracted' = <<extractApps(opts, configObject)>>
    /\ UNCHANGED <<parseVars, configObject, digVars, loadVars, partitions, sought, located,
                   grouped>>

\* one call of listPartitions()
ListPartitions ==
    /\ partitions' = <<listPartitions(configObject)>>
    /\ UNCHANGED <<parseVars, configObject, digVars, loadVars, options, extracted,
                   sought, located, grouped>>

AppsNext ==
    \/ \E opts \in OptionsSet : Apps(opts)
    \/ ListPartitions

AppsSpec == AppsInit /\ [][AppsNext]_vars

\* the keys of ltm.virtual the filter of a call selects
Selected(opts, keys) ==
    IF opts.apps # <<>>
    THEN {k \in keys : SeqIncludes(opts.apps[1], k)}
    ELSE IF opts.partitions # <<>>
    THEN {k \in keys : SeqIncludes(opts.partitions[1], FirstSegment(k))}
    ELSE IF opts.partition # <<>>
    THEN {k \in keys : FirstSegment(k) = opts.partition[1]}
    ELSE keys

\* the bundle is the one of the virtual server key
BundleOf(app, key) ==
    /\ IsMap(app) /\ Has(app.m, K_lines) /\ IsArr(Get(app.m, K_lines))
    /\ Get(app.m, K_lines).a # <<>>
    /\ StartsWith(Get(app.m, K_lines).a[1], <<"l", "t", "m", " ", "v", "i", "r", "t", "u", "a", "l", " ">> \o key \o <<" ", "{">>)

\* C11: apps(options) returns exactly one bundle for every virtual server
\* the filter selects (every key of ltm.virtual without a filter, the keys
\* of the partitions of a partition filter, the listed names that exist of
\* an apps filter) and nothing else.
C11_OneBundlePerSelected ==
    extracted # <<>> =>
        LET keys == {VirtualKeys(configObject)[i] : i \in 1..Len(VirtualKeys(configObject))}
            sel == Selected(options[1], keys)
            out == extracted[1]
        IN  /\ \A k \in sel : Cardinality({i \in 1..Len(out) : BundleOf(out[i], k)}) = 1
            /\ \A i \in 1..Len(out) : \E k \in sel : BundleOf(out[i], k)

LastSegment(qualifiedName) == Split(qualifiedName, "/")[Len(Split(qualifiedName, "/"))]

\* C12: every bundle returned by apps({ partition: P }) has partition equal
\* to P and name equal to the last path segment of the qualified name of
\* its virtual server.
C12_PartitionAndNameOfBundles ==
    (extracted # <<>> /\ options[1].apps = <<>> /\ options[1].partitions = <<>>
     /\ options[1].partition # <<>>)
    => \A i \in 1..Len(extracted[1]) :
          \A j \in 1..Len(VirtualKeys(configObject)) :
             BundleOf(extracted[1][i], VirtualKeys(configObject)[j])
             => /\ Has(extracted[1][i].m, K_partition)
                /\ Get(extracted[1][i].m, K_partition) = VStr(options[1].partition[1])
                /\ Has(extracted[1][i].m, K_name)
                /\ Get(extracted[1][i].m, K_name)
                      = VStr(LastSegment(VirtualKeys(configObject)[j]))

\* C13: listPartitions returns, sorted ascending and without duplicates,
\* the partition of every object found in the parsed configuration.
C13_PartitionsOfEveryObject ==
    partitions # <<>> =>
        /\ \A i, j \in 1..Len(partitions[1]) :
              i < j => SortsBefore(partitions[1][i], partitions[1][j])
        /\ {partitions[1][i] : i \in 1..Len(partitions[1])}
              = {FirstSegment(o[1]) : o \in RootObjects(configObject.m)}

\* the text is exactly one script object: its opening line, a body, and the
\* closing line that matches the opening line
SingleScript(lines) ==
    /\ Len(lines) >= 2
    /\ IsOpener(lines[1])
    /\ isRule(lines[1])
    /\ lines[Len(lines)] = <<"}">>
    /\ \A j \in 2..(Len(lines) - 1) : BraceDepth(lines, 1, j, TRUE) > 0
    /\ BraceDepth(lines, 1, Len(lines), TRUE) = 0

\* C14: the value stored for a script object (ltm rule, gtm rule, pem irule)
\* is a string, never a map, equal to the lines between the opening line and
\* the matching closing line, joined with newlines, nothing dropped.
C14_ScriptBodyIsVerbatim ==
    (parsed # <<>> /\ SingleScript(text))
        => /\ parsed[1].ok
           /\ Lookup(parsed[1].tree, <<K_ltm, <<"r", "u", "l", "e">>, <<"/", "C", "/", "r">>>>)
                 = <<VStr(Join(SubSeq(text, 2, Len(text) - 1), <<"\n">>))>>

ProfilePrefixes == << <<"l", "t", "m", " ", "p", "r", "o", "f", "i", "l", "e", " ">>, <<"a", "p", "m", " ", "p", "r", "o", "f", "i", "l", "e", " ", "a", "c", "c", "e", "s", "s", " ">>, <<"a", "s", "m", " ", "p", "o", "l", "i", "c", "y", " ">> >>

\* line is the fragment of sub-tree k (1: ltm profile, 2: apm profile
\* access, 3: asm policy) for the profile name
IsProfileFragment(line, k, name) ==
    /\ StartsWith(line, ProfilePrefixes[k])
    /\ Includes(line, <<" ">> \o name \o <<" ", "{">>)

\* the (position, sub-tree) pairs of the fragments of a bundle for the name
ProfileFragments(app, name) ==
    {<<i, k>> \in (1..Len(Get(app.m, K_lines).a)) \X (1..3) :
        IsProfileFragment(Get(app.m, K_lines).a[i], k, name)}

\* the three sub-trees a profile name is looked up in, in order
ProfileSubtrees ==
    << <<K_ltm, <<"p", "r", "o", "f", "i", "l", "e">>>>, <<<<"a", "p", "m">>, <<"p", "r", "o", "f", "i", "l", "e">>, <<"a", "c", "c", "e", "s", "s">>>>, <<<<"a", "s", "m">>, <<"p", "o", "l", "i", "c", "y">>>> >>

FoundInSubtree(k, name) ==
    pathValueFromKey(Lookup(configObject, ProfileSubtrees[k]), name) # <<>>

\* the profile names of a bundle
ProfileNames(app) ==
    IF Has(app.m, K_profiles) /\ IsArr(Get(app.m, K_profiles))
    THEN {Get(app.m, K_profiles).a[n] : n \in 1..Len(Get(app.m, K_profiles).a)}
    ELSE {}

\* C19 as stated: for each profile name, digVsConfig pushes at most one
\* fragment: the line of the first sub-tree, in the order ltm profile, apm
\* profile access, asm policy, in which the name is found.
C19_OneFragmentPerProfile ==
    extracted # <<>> =>
        \A b \in 1..Len(extracted[1]) : \A name \in ProfileNames(extracted[1][b]) :
            LET frags == ProfileFragments(extracted[1][b], name)
            IN  /\ Cardinality(frags) <= 1
                /\ \A f \in frags : \A k \in 1..(f[2] - 1) : ~FoundInSubtree(k, name)

\* C19 amended: for each profile name, digVsConfig pushes one fragment for
\* every sub-tree in which the name is found, up to three, in the order ltm
\* profile, apm profile access, asm policy.
C19_OneFragmentPerSubtree ==
    extracted # <<>> =>
        \A b \in 1..Len(extracted[1]) : \A name \in ProfileNames(extracted[1][b]) :
            LET frags == ProfileFragments(extracted[1][b], name)
            IN  /\ \A k \in 1..3 :
                      Cardinality({f \in frags : f[2] = k})
                         = (IF FoundInSubtree(k, name) THEN 1 ELSE 0)
                /\ \A f, g \in frags : f[2] < g[2] => f[1] < g[1]

\* a bundle holds the ltm profile fragment, the apm profile access fragment
\* and the asm policy fragment of the same profile name
C19_Witness ==
    /\ extracted # <<>>
    /\ \E b \in 1..Len(extracted[1]) :
          /\ <<"/", "C", "/", "h">> \in ProfileNames(extracted[1][b])
          /\ {f[2] : f \in ProfileFragments(extracted[1][b], <<"/", "C", "/", "h">>)} = {1, 2, 3}

(***************************************************************************)
(* parseConfig of one root object whose body is drawn from the kinds of    *)
(* body line orchestrate tells apart: a quoted value left open, the line   *)
(* that closes it, a key-value line, pseudo-arrays, an empty object, and   *)
(* the opening and closing lines of a nested object.                       *)
(***************************************************************************)
MaxBodyLines == 3

MaxTokens == 2

TokenNames == <<"a", "b", "c", "d">>

\* the tokens t1 .. tn
TokenList(n) == [i \in 1..n |-> <<TokenNames[i]>>]

\* the body line 'v { t1 t2 ... tn }'
PseudoArrayLine(n) == <<" ", " ", " ", " ", "v", " ", "{", " ">> \o Join(TokenList(n), <<" ">>) \o <<" ", "}">>

BodyVocabulary ==
    { <<" ", " ", " ", " ", "d", " ", "\"", "x">>, <<"y", "\"">>, <<" ", " ", " ", " ", "k", " ", "1">>, <<" ", " ", " ", " ", "e", " ", "{", " ", "}">>, <<" ", " ", " ", " ", "n", " ", "{">>, <<" ", " ", " ", " ", "}">> }
    \cup {PseudoArrayLine(n) : n \in 1..MaxTokens}

BodyTexts ==
    { <<<<"l", "t", "m", " ", "p", "o", "o", "l", " ", "/", "C", "/", "p", " ", "{">>>> \o body \o <<<<"}">>>> :
         body \in UNION {[1..n -> BodyVocabulary] : n \in 0..MaxBodyLines} }

BodyInit ==
    /\ text \in BodyTexts
    /\ parsed = <<>>
    /\ configObject = <<>>
    /\ IdleDig
    /\ IdleLoad
    /\ IdleCall

BodySpec == BodyInit /\ [][ParseNext]_vars

\* the first line after lines[i] that makes the cumulative quote count
\* even, 0 when there is none
ClosingQuoteLine(lines, i) ==
    IF \E j \in (i + 1)..Len(lines) : QuoteCount(lines[j]) % 2 = 1
    THEN CHOOSE j \in (i + 1)..Len(lines) :
            /\ QuoteCount(lines[j]) % 2 = 1
            /\ \A k \in (i + 1)..(j - 1) : QuoteCount(lines[k]) % 2 = 0
    ELSE 0

\* the first body line opens the quoted value of d, a later line 'y"'
\* closes it, and no line after that one assigns d again
OpensQuotedValue(lines) ==
    /\ SingleObject(lines)
    /\ Len(lines) >= 4
    /\ lines[2] = <<" ", " ", " ", " ", "d", " ", "\"", "x">>
    /\ ClosingQuoteLine(lines, 2) # 0
    /\ lines[ClosingQuoteLine(lines, 2)] = <<"y", "\"">>
    /\ \A j \in (ClosingQuoteLine(lines, 2) + 1)..Len(lines) : lines[j] # <<" ", " ", " ", " ", "d", " ", "\"", "x">>

\* C15: a body line that starts a value with an odd number of quotes is
\* joined with the following lines up to and including the first line that
\* makes the quote count even, and the property stored under the leading
\* key of the line is that joined text without the key and the enclosing
\* quotes.
C15_MultilineValueStored ==
    (parsed # <<>> /\ parsed[1].ok /\ OpensQuotedValue(text))
        => Lookup(parsed[1].tree, <<K_ltm, K_pool, <<"/", "C", "/", "p">>, <<"d">>>>)
              = <<VStr(Join(<<<<"x">>>>
                            \o SubSeq(text, 3, ClosingQuoteLine(text, 2) - 1)
                            \o <<<<"y">>>>, <<"\n">>))>>

\* the lines among lines[2] .. lines[i - 1] with an odd number of quotes
OddQuoteLines(lines, i) ==
    SelectSeq(SubSeq(lines, 2, i - 1), LAMBDA line : QuoteCount(line) % 2 = 1)

\* every quoted value opened before lines[i] by a line 'd "x' is closed
\* before lines[i] by a line 'y"', and no other line holds a quote
QuotesClosedBefore(lines, i) ==
    /\ Len(OddQuoteLines(lines, i)) % 2 = 0
    /\ \A k \in 1..Len(OddQuoteLines(lines, i)) :
          OddQuoteLines(lines, i)[k] = (IF k % 2 = 1 THEN <<" ", " ", " ", " ", "d", " ", "\"", "x">> ELSE <<"y", "\"">>)

\* lines[i] is a line of the body of the root object itself: it is neither
\* inside a nested object nor inside a quoted value
DirectBodyLine(lines, i) ==
    /\ i \in 2..(Len(lines) - 1)
    /\ BraceDepth(lines, 1, i - 1, FALSE) = 1
    /\ QuotesClosedBefore(lines, i)

IsPseudoArray(line) == \E n \in 1..MaxTokens : line = PseudoArrayLine(n)

\* C16: a body line 'key { t1 t2 ... tn }' without a quote character is
\* stored under key as the ordered list of strings [t1, ..., tn], for every
\* n >= 1.
C16_PseudoArrayIsOrderedList ==
    (parsed # <<>> /\ parsed[1].ok /\ SingleObject(text))
        => \A i \in 2..(Len(text) - 1) : \A n \in 1..MaxTokens :
              (/\ text[i] = PseudoArrayLine(n)
               /\ DirectBodyLine(text, i)
               /\ \A j \in (i + 1)..(Len(text) - 1) : ~IsPseudoArray(text[j]))
              => Lookup(parsed[1].tree, <<K_ltm, K_pool, <<"/", "C", "/", "p">>, <<"v">>>>)
                    = <<VArr(TokenList(n))>>

\* a pseudo-array of more than one token has been parsed after other lines
C16_Witness ==
    /\ parsed # <<>> /\ parsed[1].ok /\ SingleObject(text)
    /\ Len(text) = 5
    /\ text[2] = PseudoArrayLine(1)
    /\ text[3] = <<" ", " ", " ", " ", "k", " ", "1">>
    /\ text[4] = PseudoArrayLine(MaxTokens)
    /\ Lookup(parsed[1].tree, <<K_ltm, K_pool, <<"/", "C", "/", "p">>, <<"v">>>>)
          = <<VArr(TokenList(MaxTokens))>>

\* the map m and every map below it hold a line entry
RECURSIVE LineAtEveryDepth(_)
LineAtEveryDepth(m) ==
    /\ Has(m, K_line)
    /\ \A i \in 1..Len(m) : IsMap(m[i].v) => LineAtEveryDepth(m[i].v.m)

\* C20: in every tree parseConfig returns, every map-typed node of an
\* object, at any depth (the root object, its nested objects, its empty
\* objects written 'key { }'), has a line entry.
C20_EveryMapHasLine ==
    (parsed # <<>> /\ parsed[1].ok)
        => \A o \in RootObjects(parsed[1].tree.m) : LineAtEveryDepth(o[2])

(***************************************************************************)
(* digGslb() over the ConfigTree of one wideip whose pool lists up to      *)
(* MaxMembers members.  A member names virtual server v1, v2 or v3 of the  *)
(* server /C/s; the server defines v1 and v2, each with or without a       *)
(* translation address and a translation port.  Members 1..3 carry the     *)
(* fields server and vs; member PlainMember is v1 of /C/s named by its key *)
(* alone, '<server>:<virtual-server>'.                                     *)
(***************************************************************************)
MaxMembers == 2

DefinedVs == {1, 2}

PlainMember == 4

\* no member twice, and not both members whose key is /C/s:v1
MemberLists ==
    {ms \in UNION {[1..n -> 1..PlainMember] : n \in 1..MaxMembers} :
        /\ \A i, j \in 1..Len(ms) : ms[i] = ms[j] => i = j
        /\ ~({1, PlainMember} \subseteq {ms[i] : i \in 1..Len(ms)})}

Translations == [address : BOOLEAN, port : BOOLEAN]

GslbCases == [members : MemberLists, v : [DefinedVs -> Translations], fallback : BOOLEAN]

FallbackIp == <<"9">>

MemberBlock(i) ==
    IF i = PlainMember
    THEN << <<" ", " ", " ", " ", " ", " ", " ", " ", "/", "C", "/", "s", ":", "v", "1", " ", "{">>,
            <<" ", " ", " ", " ", " ", " ", " ", " ", " ", " ", " ", " ", "m", "e", "m", "b", "e", "r", "-", "o", "r", "d", "e", "r", " ", "0">>,
            <<" ", " ", " ", " ", " ", " ", " ", " ", "}">> >>
    ELSE
    << <<" ", " ", " ", " ", " ", " ", " ", " ", "/", "C", "/", "s", ":", "v">> \o NatToStr(i) \o <<" ", "{">>,
       <<" ", " ", " ", " ", " ", " ", " ", " ", " ", " ", " ", " ", "s", "e", "r", "v", "e", "r", " ", "/", "C", "/", "s">>,
       <<" ", " ", " ", " ", " ", " ", " ", " ", " ", " ", " ", " ", "v", "s", " ", "v">> \o NatToStr(i),
       <<" ", " ", " ", " ", " ", " ", " ", " ", "}">> >>

VsBlock(i, translation) ==
    << <<" ", " ", " ", " ", " ", " ", " ", " ", "v">> \o NatToStr(i) \o <<" ", "{">>,
       <<" ", " ", " ", " ", " ", " ", " ", " ", " ", " ", " ", " ", "d", "e", "s", "t", "i", "n", "a", "t", "i", "o", "n", " ">> \o NatToStr(i) \o <<":", "8", "0">> >>
    \o (IF translation.address
        THEN << <<" ", " ", " ", " ", " ", " ", " ", " ", " ", " ", " ", " ", "t", "r", "a", "n", "s", "l", "a", "t", "i", "o", "n", "-", "a", "d", "d", "r", "e", "s", "s", " ">> \o NatToStr(i) \o NatToStr(i) >>
        ELSE <<>>)
    \o (IF translation.port
        THEN << <<" ", " ", " ", " ", " ", " ", " ", " ", " ", " ", " ", " ", "t", "r", "a", "n", "s", "l", "a", "t", "i", "o", "n", "-", "p", "o", "r", "t", " ", "8">> \o NatToStr(i) >>
        ELSE <<>>)
    \o << <<" ", " ", " ", " ", " ", " ", " ", " ", "}">> >>

GslbTextOf(case) ==
    << <<"g", "t", "m", " ", "w", "i", "d", "e", "i", "p", " ", "a", " ", "/", "C", "/", "w", " ", "{">>,
       <<" ", " ", " ", " ", "p", "o", "o", "l", "s", " ", "{">>,
       <<" ", " ", " ", " ", " ", " ", " ", " ", "/", "C", "/", "g", " ", "{">>,
       <<" ", " ", " ", " ", " ", " ", " ", " ", " ", " ", " ", " ", "o", "r", "d", "e", "r", " ", "0">>,
       <<" ", " ", " ", " ", " ", " ", " ", " ", "}">>,
       <<" ", " ", " ", " ", "}">>,
       <<"}">>,
       <<"g", "t", "m", " ", "p", "o", "o", "l", " ", "a", " ", "/", "C", "/", "g", " ", "{">> >>
    \o (IF case.fallback THEN << <<" ", " ", " ", " ", "f", "a", "l", "l", "b", "a", "c", "k", "-", "i", "p", " ">> \o FallbackIp >> ELSE <<>>)
    \o << <<" ", " ", " ", " ", "m", "e", "m", "b", "e", "r", "s", " ", "{">> >>
    \o Flatten([i \in 1..Len(case.members) |-> MemberBlock(case.members[i])])
    \o << <<" ", " ", " ", " ", "}">>,
          <<"}">>,
          <<"g", "t", "m", " ", "s", "e", "r", "v", "e", "r", " ", "/", "C", "/", "s", " ", "{">>,
          <<" ", " ", " ", " ", "v", "i", "r", "t", "u", "a", "l", "-", "s", "e", "r", "v", "e", "r", "s", " ", "{">> >>
    \o VsBlock(1, case.v[1]) \o VsBlock(2, case.v[2])
    \o << <<" ", " ", " ", " ", "}">>, <<"}">> >>

GslbInit ==
    /\ \E case \in GslbCases : text = GslbTextOf(case)
    /\ parsed = <<>>
    /\ configObject = parseConfig(text).tree
    /\ IdleDig
    /\ IdleLoad
    /\ IdleCall

GslbNext == Fqdns

GslbSpec == GslbInit /\ [][GslbNext]_vars

\* the destination the claim gives for virtual server i
ClaimedDestination(i, translation) ==
    IF translation.address /\ translation.port
    THEN NatToStr(i) \o <<":", "8", "0", "-", ">", "N", "A", "T", "-", ">">> \o NatToStr(i) \o NatToStr(i) \o <<":", "8">> \o NatToStr(i)
    ELSE NatToStr(i) \o <<":", "8", "0">>

\* the members of the case that resolve to a virtual server, in the order of
\* the pool
ResolvedMembers(case) == SelectSeq(case.members, LAMBDA i : i \in DefinedVs)

\* every resolved member has both translation fields or neither
BothOrNeither(case) ==
    \A k \in 1..Len(ResolvedMembers(case)) :
        case.v[ResolvedMembers(case)[k]].address = case.v[ResolvedMembers(case)[k]].port

\* allPossibleDestinations of the only wideip, without the fallback address
MemberDestinations ==
    SelectSeq(Get(apps[1].apps[1].m, <<"a", "l", "l", "P", "o", "s", "s", "i", "b", "l", "e", "D", "e", "s", "t", "i", "n", "a", "t", "i", "o", "n", "s">>).a,
              LAMBDA d : d # FallbackIp)

\* C17: for each resolved virtual-server entry, the destination appended to
\* allPossibleDestinations is 'destination->NAT->address:port' when both
\* translation fields are present and the raw destination when neither is;
\* the entries are in discovery order, none reordered or removed.
C17_DestinationsInDiscoveryOrder ==
    apps # <<>> =>
        \A case \in GslbCases :
            (text = GslbTextOf(case) /\ BothOrNeither(case))
            => /\ apps[1].ok
               /\ Len(apps[1].apps) = 1
               /\ MemberDestinations
                     = [k \in 1..Len(ResolvedMembers(case)) |->
                          ClaimedDestination(ResolvedMembers(case)[k],
                                             case.v[ResolvedMembers(case)[k]])]

\* two resolved members, the second one of the server listed first, one
\* translated and one not, after the fallback address
C17_Witness ==
    /\ apps # <<>> /\ apps[1].ok /\ Len(apps[1].apps) = 1
    /\ Get(apps[1].apps[1].m, <<"a", "l", "l", "P", "o", "s", "s", "i", "b", "l", "e", "D", "e", "s", "t", "i", "n", "a", "t", "i", "o", "n", "s">>)
          = VArr(<< FallbackIp, <<"2", ":", "8", "0", "-", ">", "N", "A", "T", "-", ">", "2", "2", ":", "8", "2">>, <<"1", ":", "8", "0">> >>)

\* the text of the state has a pool member written '/C/s:v1' and nothing
\* else; the server /C/s and its virtual server v1 exist in every case
HasPlainMember ==
    \E case \in GslbCases :
        /\ text = GslbTextOf(case)
        /\ \E i \in 1..Len(case.members) : case.members[i] = PlainMember

\* the member entry /C/s:v1 of the pool of the only wideip
PlainMemberEntry ==
    Lookup(VMap(apps[1].apps[1].m), <<K_pools, <<"/", "C", "/", "g">>, K_members, <<"/", "C", "/", "s", ":", "v", "1">>>>)

\* C23: a pool member written '<server>:<virtual-server>' whose server and
\* virtual-server sub-entry both exist is resolved by fqdns(): the virtual
\* server's destination is in allPossibleDestinations, the server's line is
\* in lines, and the virtual server's fields are merged into the member.
C23_PlainMemberIsResolved ==
    (apps # <<>> /\ HasPlainMember) =>
        /\ apps[1].ok
        /\ Len(apps[1].apps) = 1
        /\ \E d \in {<<"1", ":", "8", "0">>, <<"1", ":", "8", "0", "-", ">", "N", "A", "T", "-", ">", "1", "1">>, <<"1", ":", "8", "0", "-", ">", "N", "A", "T", "-", ">", "1", "1", ":", "8", "1">>, <<"1", ":", "8", "0", "-", ">", "N", "A", "T", "-", ">", ":", "8", "1">>} :
              SeqIncludes(Get(apps[1].apps[1].m, <<"a", "l", "l", "P", "o", "s", "s", "i", "b", "l", "e", "D", "e", "s", "t", "i", "n", "a", "t", "i", "o", "n", "s">>).a, d)
        /\ \E i \in 1..Len(Get(apps[1].apps[1].m, K_lines).a) :
              StartsWith(Get(apps[1].apps[1].m, K_lines).a[i], <<"g", "t", "m", " ", "s", "e", "r", "v", "e", "r", " ", "/", "C", "/", "s", " ", "{">>)
        /\ PlainMemberEntry # <<>>
        /\ IsMap(PlainMemberEntry[1])
        /\ Has(PlainMemberEntry[1].m, <<"d", "e", "s", "t", "i", "n", "a", "t", "i", "o", "n">>)

(***************************************************************************)
(* pathValueFromKey over the monitor category of one parsed text: any of   *)
(* five monitors of three types, in the order below or in the opposite     *)
(* order.  /C/m and /C/x occur as monitor names and as keys inside the     *)
(* body of a monitor.                                                      *)
(***************************************************************************)
MonitorBlocks ==
    << << <<"l", "t", "m", " ", "m", "o", "n", "i", "t", "o", "r", " ", "h", "t", "t", "p", " ", "/", "C", "/", "x", " ", "{">>, <<" ", " ", " ", " ", "/", "C", "/", "m", " ", "{", " ", "}">>, <<"}">> >>,
       << <<"l", "t", "m", " ", "m", "o", "n", "i", "t", "o", "r", " ", "h", "t", "t", "p", " ", "/", "C", "/", "m", " ", "{">>, <<" ", " ", " ", " ", "i", "n", "t", "e", "r", "v", "a", "l", " ", "5">>, <<"}">> >>,
       << <<"l", "t", "m", " ", "m", "o", "n", "i", "t", "o", "r", " ", "t", "c", "p", " ", "/", "C", "/", "m", " ", "{">>, <<" ", " ", " ", " ", "i", "n", "t", "e", "r", "v", "a", "l", " ", "9">>, <<"}">> >>,
       << <<"l", "t", "m", " ", "m", "o", "n", "i", "t", "o", "r", " ", "t", "c", "p", " ", "/", "C", "/", "x", " ", "{">>, <<" ", " ", " ", " ", "i", "n", "t", "e", "r", "v", "a", "l", " ", "7">>, <<"}">> >>,
       << <<"l", "t", "m", " ", "m", "o", "n", "i", "t", "o", "r", " ", "u", "d", "p", " ", "/", "C", "/", "u", " ", "{">>, <<" ", " ", " ", " ", "/", "C", "/", "x", " ", "{", " ", "}">>, <<"}">> >> >>

Reverse(seq) == [i \in 1..Len(seq) |-> seq[Len(seq) + 1 - i]]

ChosenBlocks(chosen, blocks) ==
    Flatten([i \in 1..Len(blocks) |-> IF i \in chosen THEN blocks[i] ELSE <<>>])

SoughtKeys == { <<"/", "C", "/", "m">>, <<"/", "C", "/", "x">>, <<"/", "C", "/", "z">> }

FindInit ==
    /\ \E chosen \in SUBSET (1..Len(MonitorBlocks)) : \E reversed \in BOOLEAN :
          text = ChosenBlocks(chosen, IF reversed THEN Reverse(MonitorBlocks)
                                                  ELSE MonitorBlocks)
    /\ parsed = <<>>
    /\ configObject = parseConfig(text).tree
    /\ IdleDig
    /\ IdleLoad
    /\ IdleCall

\* one call of pathValueFromKey(configTree.ltm?.monitor, key)
Find(key) ==
    /\ sought' = <<key>>
    /\ located' = <<pathValueFromKey(Lookup(configObject, <<K_ltm, K_monitor>>), key)>>
    /\ UNCHANGED <<parseVars, configObject, digVars, loadVars, options, extracted, partitions,
                   grouped>>

FindNext == \E key \in SoughtKeys : Find(key)

FindSpec == FindInit /\ [][FindNext]_vars

\* the places of the tree below v where key is an own property: each is the
\* sequence of entry positions leading from v to the object holding key
RECURSIVE Occurrences(_, _)
Occurrences(v, key) ==
    (IF Has(OwnEntries(v), key) THEN {<<>>} ELSE {})
    \cup UNION { {<<i>> \o p : p \in Occurrences(OwnEntries(v)[i].v, key)} :
                 i \in {j \in 1..Len(OwnEntries(v)) : IsMap(OwnEntries(v)[j].v)} }

\* the object at place p below v
RECURSIVE ObjectAt(_, _)
ObjectAt(v, p) == IF p = <<>> THEN v ELSE ObjectAt(OwnEntries(v)[Head(p)].v, Tail(p))

\* the keys along place p below v
RECURSIVE KeysAlong(_, _)
KeysAlong(v, p) ==
    IF p = <<>> THEN <<>>
    ELSE <<OwnEntries(v)[Head(p)].k>> \o KeysAlong(OwnEntries(v)[Head(p)].v, Tail(p))

\* what pathValueFromKey returns for the occurrence at place p
MatchAt(v, p, key) ==
    [path |-> IF p = <<>> THEN <<>> ELSE <<Join(KeysAlong(v, p), <<".">>)>>,
     key |-> key,
     value |-> Get(OwnEntries(ObjectAt(v, p)), key)]

\* place p is visited before place q by a walk that looks at an object
\* before its children and at the children in the order of their keys
VisitedBefore(p, q) ==
    \/ Len(p) < Len(q) /\ SubSeq(q, 1, Len(p)) = p
    \/ \E i \in 1..Len(p) :
          /\ i <= Len(q)
          /\ SubSeq(p, 1, i - 1) = SubSeq(q, 1, i - 1)
          /\ p[i] < q[i]

MonitorTree == Lookup(configObject, <<K_ltm, K_monitor>>)

GroupedLines(pieces) ==
    With(preprocessComments(preprocessTopology(NormalizeLines(pieces))), LAMBDA marked :
    With(FilterLines(marked), LAMBDA fileArr :
    With(groupObjects(fileArr), LAMBDA groupResult :
    [marked |-> marked, fileArr |-> fileArr,
     group |-> groupResult.group, error |-> groupResult.error])))

\* root openers, a body line that mentions a rule, a quoted and an escaped
\* brace, a nested object, closing lines and a comment
GroupVocabulary ==
    { <<"l", "t", "m", " ", "p", "o", "o", "l", " ", "/", "C", "/", "p", " ", "{">>, <<"l", "t", "m", " ", "r", "u", "l", "e", " ", "/", "C", "/", "r", " ", "{">>, <<" ", " ", " ", " ", "d", " ", "l", "t", "m", " ", "r", "u", "l", "e">>,
      <<" ", " ", " ", " ", "a", " ", "\"", "{", "\"">>, <<" ", " ", " ", " ", "b", " ", "\\", "{">>, <<" ", " ", " ", " ", "m", " ", "{">>, <<" ", " ", " ", " ", "}">>, <<"}">>, <<"#", " ", "c">> }

GroupTexts == UNION {[1..n -> GroupVocabulary] : n \in 0..MaxLines}

GroupInit ==
    /\ text \in GroupTexts
    /\ parsed = <<>>
    /\ configObject = <<>>
    /\ IdleDig
    /\ IdleLoad
    /\ IdleCall

\* the preprocessing and grouping steps of one parseConfig(configText) call
Group ==
    /\ grouped = <<>>
    /\ grouped' = <<GroupedLines(text)>>
    /\ UNCHANGED <<parseVars, configObject, digVars, loadVars,
                   options, extracted, partitions, sought, located>>

GroupNext == Group

GroupSpec == GroupInit /\ [][GroupNext]_vars

(***************************************************************************)
(* Properties of the Grouper.                                              *)
(***************************************************************************)
\* the scan of the object opened at lines[i] reaches lines[j] with its depth
\* not yet back at zero and without having been cut short before
ScanReaches(lines, i, j) ==
    /\ IsOpener(lines[i])
    /\ j > i
    /\ \A k \in i..(j - 1) : BraceDepth(lines, i, k, isRule(lines[i])) # 0
    /\ \A k \in (i + 1)..(j - 1) :
          ~isRule(lines[k]) \/ (isRule(lines[i]) /\ SkippedInRule(lines[k]))

\* the scan of the object opened at lines[i] meets, at lines[j], a line that
\* looks like the start of a script object (the test of line 420)
MeetsScriptStart(lines, i, j) ==
    /\ ScanReaches(lines, i, j)
    /\ isRule(lines[j])
    /\ ~(isRule(lines[i]) /\ SkippedInRule(lines[j]))

\* C21: while an object is scanned whose depth has not returned to zero, a
\* line that looks like the start of a script object ends the current group
\* at the preceding line and the next group starts at that line: no line is
\* in two groups and the lines from that line onward are not skipped.
C21_ScriptStartOpensNextGroup ==
    grouped # <<>> =>
        LET fileArr == grouped[1].fileArr
            group == grouped[1].group
        IN  \A j \in 2..Len(fileArr) :
                MeetsScriptStart(fileArr, 1, j) =>
                    /\ Len(group) >= 2
                    /\ group[1] = SubSeq(fileArr, 1, j - 1)
                    /\ group[2][1] = fileArr[j]
                    /\ group[1] \o group[2]
                         = SubSeq(fileArr, 1, Len(group[1]) + Len(group[2]))


\* the character at line[i] lies inside a double-quoted substring of the line
InsideQuotes(line, i) ==
    /\ Cardinality({k \in 1..(i - 1) : line[k] = "\""}) % 2 = 1
    /\ \E k \in (i + 1)..Len(line) : line[k] = "\""

\* the occurrences of a brace in a line that are neither inside a
\* double-quoted substring nor immediately preceded by a backslash
PlainBraces(line, brace) ==
    Cardinality({i \in 1..Len(line) :
                    /\ line[i] = brace
                    /\ ~InsideQuotes(line, i)
                    /\ ~(i > 1 /\ line[i - 1] = "\\")})

\* the count of such braces of the object opened at lines[1], after lines[j]
RECURSIVE PlainDepth(_, _)
PlainDepth(lines, j) ==
    IF j <= 1 THEN 1
    ELSE PlainDepth(lines, j - 1)
         + PlainBraces(lines[j], "{") - PlainBraces(lines[j], "}")

\* the first root object is not a script object and lines[j] is the first
\* line at which the count of its plain braces returns to zero; no line up
\* to there looks like the start of a script object
ClosesAt(lines, j) ==
    /\ IsOpener(lines[1])
    /\ ~isRule(lines[1])
    /\ j \in 2..Len(lines)
    /\ PlainDepth(lines, j) = 0
    /\ \A k \in 1..(j - 1) : PlainDepth(lines, k) # 0
    /\ \A k \in 2..j : ~isRule(lines[k])

\* the same object with its count never back at zero before the end of input
NeverCloses(lines) ==
    /\ lines # <<>>
    /\ IsOpener(lines[1])
    /\ ~isRule(lines[1])
    /\ \A k \in 1..Len(lines) : PlainDepth(lines, k) # 0
    /\ \A k \in 2..Len(lines) : ~isRule(lines[k])

IsCommentLine(line) == StartsWith(Trim(line), <<"#", " ">>)

\* line i of the input is removed by the filter of line 736 as a comment
RemovedAsComment(i) == StartsWith(Trim(grouped[1].marked[i]), CommentMark)

\* the closing line of the script object opened at lines[1], as the Grouper
\* counts its braces; past the end of input when there is none
ScriptClose(lines) ==
    IF \E j \in 2..Len(lines) : BraceDepth(lines, 1, j, TRUE) = 0
    THEN CHOOSE j \in 2..Len(lines) :
            /\ BraceDepth(lines, 1, j, TRUE) = 0
            /\ \A k \in 2..(j - 1) : BraceDepth(lines, 1, k, TRUE) # 0
    ELSE Len(lines) + 1

\* the input is one script object, opened by its first line, and whatever
\* follows its closing line; no other line mentions a script object
OneScriptFirst(lines) ==
    /\ lines # <<>>
    /\ IsOpener(lines[1])
    /\ isRule(lines[1])
    /\ \A k \in 2..Len(lines) : ~isRule(lines[k])

\* C26: a line is removed by comment filtering if and only if it is a
\* comment line lying outside every script body: every comment outside
\* script bodies is removed before grouping, those that follow a script
\* object's closing brace included, and no comment inside a script body is.
C26_CommentsRemovedOutsideScripts ==
    grouped # <<>> =>
        /\ (\A k \in 1..Len(text) : ~isRule(text[k])) =>
               \A i \in 1..Len(text) : RemovedAsComment(i) <=> IsCommentLine(text[i])
        /\ OneScriptFirst(text) =>
               \A i \in 1..Len(text) :
                   RemovedAsComment(i)
                       <=> (IsCommentLine(text[i]) /\ i > ScriptClose(text))

(***************************************************************************)
(* apps(options) over the ConfigTree of one virtual server that refers to  *)
(* a pool with monitors and to persistence profiles.  The pool declares    *)
(* its monitors as a single name or as 'min 1 of' a list, written on one   *)
(* line or on several; the virtual server has a persist block, a           *)
(* fallback-persistence reference, both or neither; any of the monitors    *)
(* and persistence profiles referred to are defined.                       *)
(***************************************************************************)
MonitorForms == {"single", "oneline", "multiline"}

ReferBlocks ==
    << << <<"l", "t", "m", " ", "m", "o", "n", "i", "t", "o", "r", " ", "h", "t", "t", "p", " ", "/", "C", "/", "m", " ", "{">>, <<" ", " ", " ", " ", "i", "n", "t", "e", "r", "v", "a", "l", " ", "5">>, <<"}">> >>,
       << <<"l", "t", "m", " ", "m", "o", "n", "i", "t", "o", "r", " ", "t", "c", "p", " ", "/", "C", "/", "n", " ", "{">>, <<" ", " ", " ", " ", "i", "n", "t", "e", "r", "v", "a", "l", " ", "6">>, <<"}">> >>,
       << <<"l", "t", "m", " ", "p", "e", "r", "s", "i", "s", "t", "e", "n", "c", "e", " ", "c", "o", "o", "k", "i", "e", " ", "/", "C", "/", "k", " ", "{">>, <<" ", " ", " ", " ", "m", "e", "t", "h", "o", "d", " ", "i", "n", "s", "e", "r", "t">>, <<"}">> >>,
       << <<"l", "t", "m", " ", "p", "e", "r", "s", "i", "s", "t", "e", "n", "c", "e", " ", "s", "o", "u", "r", "c", "e", "-", "a", "d", "d", "r", " ", "/", "C", "/", "f", " ", "{">>, <<" ", " ", " ", " ", "t", "i", "m", "e", "o", "u", "t", " ", "9">>, <<"}">> >> >>

ReferCases ==
    [monitor : MonitorForms, persist : BOOLEAN, fallback : BOOLEAN,
     blocks : SUBSET (1..Len(ReferBlocks))]

ReferTextOf(case) ==
    << <<"l", "t", "m", " ", "v", "i", "r", "t", "u", "a", "l", " ", "/", "C", "/", "v", " ", "{">>, <<" ", " ", " ", " ", "p", "o", "o", "l", " ", "/", "C", "/", "p">> >>
    \o (IF case.persist
        THEN << <<" ", " ", " ", " ", "p", "e", "r", "s", "i", "s", "t", " ", "{">>,
                <<" ", " ", " ", " ", " ", " ", " ", " ", "/", "C", "/", "k", " ", "{">>,
                <<" ", " ", " ", " ", " ", " ", " ", " ", " ", " ", " ", " ", "d", "e", "f", "a", "u", "l", "t", " ", "y", "e", "s">>,
                <<" ", " ", " ", " ", " ", " ", " ", " ", "}">>,
                <<" ", " ", " ", " ", "}">> >>
        ELSE <<>>)
    \o (IF case.fallback THEN << <<" ", " ", " ", " ", "f", "a", "l", "l", "b", "a", "c", "k", "-", "p", "e", "r", "s", "i", "s", "t", "e", "n", "c", "e", " ", "/", "C", "/", "f">> >> ELSE <<>>)
    \o << <<"}">>, <<"l", "t", "m", " ", "p", "o", "o", "l", " ", "/", "C", "/", "p", " ", "{">> >>
    \o (IF case.monitor = "single" THEN << <<" ", " ", " ", " ", "m", "o", "n", "i", "t", "o", "r", " ", "/", "C", "/", "m">> >>
        ELSE IF case.monitor = "oneline"
        THEN << <<" ", " ", " ", " ", "m", "o", "n", "i", "t", "o", "r", " ", "m", "i", "n", " ", "1", " ", "o", "f", " ", "{", " ", "/", "C", "/", "m", " ", "/", "C", "/", "n", " ", "}">> >>
        ELSE << <<" ", " ", " ", " ", "m", "o", "n", "i", "t", "o", "r", " ", "m", "i", "n", " ", "1", " ", "o", "f", " ", "{">>, <<" ", " ", " ", " ", " ", " ", " ", " ", "/", "C", "/", "m">>, <<" ", " ", " ", " ", " ", " ", " ", " ", "/", "C", "/", "n">>, <<" ", " ", " ", " ", "}">> >>)
    \o << <<"}">> >>
    \o Flatten([i \in 1..Len(ReferBlocks) |->
                   IF i \in case.blocks THEN ReferBlocks[i] ELSE <<>>])

ReferInit ==
    /\ \E case \in ReferCases : text = ReferTextOf(case)
    /\ parsed = <<>>
    /\ configObject = parseConfig(text).tree
    /\ IdleDig
    /\ IdleLoad
    /\ IdleCall

ReferNext == AppsNext

ReferSpec == ReferInit /\ [][ReferNext]_vars

\* the case the text of the state was written from
ReferCase == CHOOSE case \in ReferCases : text = ReferTextOf(case)

\* some fragment of the bundle of /C/v starts with the given title and brace
HasFragment(app, title) ==
    \E i \in 1..Len(Get(app.m, K_lines).a) :
        StartsWith(Get(app.m, K_lines).a[i], title \o <<" ", "{">>)

\* C24: when a virtual server has a persist block naming a persistence
\* profile that exists under ltm persistence, the lines of its bundle hold
\* the fragment 'ltm persistence <subtype> <name> {...}' of that profile;
\* the same holds for a fallback-persistence reference.
C24_PersistenceFragments ==
    extracted # <<>> =>
        \A i \in 1..Len(extracted[1]) :
            BundleOf(extracted[1][i], <<"/", "C", "/", "v">>) =>
                /\ (ReferCase.persist /\ 3 \in ReferCase.blocks)
                       => HasFragment(extracted[1][i], <<"l", "t", "m", " ", "p", "e", "r", "s", "i", "s", "t", "e", "n", "c", "e", " ", "c", "o", "o", "k", "i", "e", " ", "/", "C", "/", "k">>)
                /\ (ReferCase.fallback /\ 4 \in ReferCase.blocks)
                       => HasFragment(extracted[1][i], <<"l", "t", "m", " ", "p", "e", "r", "s", "i", "s", "t", "e", "n", "c", "e", " ", "s", "o", "u", "r", "c", "e", "-", "a", "d", "d", "r", " ", "/", "C", "/", "f">>)


\* the monitors a pool lists that are defined in the text
ListedMonitors(case) ==
    (IF 1 \in case.blocks THEN {<<"l", "t", "m", " ", "m", "o", "n", "i", "t", "o", "r", " ", "h", "t", "t", "p", " ", "/", "C", "/", "m">>} ELSE {})
    \cup (IF 2 \in case.blocks /\ case.monitor # "single"
          THEN {<<"l", "t", "m", " ", "m", "o", "n", "i", "t", "o", "r", " ", "t", "c", "p", " ", "/", "C", "/", "n">>} ELSE {})

\* C25: a pool that declares its monitors as 'monitor min N of { m1 m2 }' is
\* parsed to a token list, and digVsConfig resolves each listed monitor that
\* exists in the tree and pushes its 'ltm monitor <subtype> <name> { ... }'
\* fragment, exactly as it does for a single-monitor string.
C25_MinOfMonitorsResolved ==
    extracted # <<>> =>
        /\ ReferCase.monitor # "single" =>
               \E e \in {Lookup(configObject, <<K_ltm, K_pool, <<"/", "C", "/", "p">>>>)[1].m[j] :
                             j \in 1..Len(Lookup(configObject, <<K_ltm, K_pool, <<"/", "C", "/", "p">>>>)[1].m)} :
                   IsArr(e.v) /\ e.v.a = << <<"/", "C", "/", "m">>, <<"/", "C", "/", "n">> >>
        /\ \A i \in 1..Len(extracted[1]) :
               BundleOf(extracted[1][i], <<"/", "C", "/", "v">>) =>
                   \A title \in ListedMonitors(ReferCase) :
                       HasFragment(extracted[1][i], title)


(***************************************************************************)
(* parseConfig of one root object with anonymous entries (a bare '{' as    *)
(* the opening line): up to MaxAnon of them directly in the body of the    *)
(* object and up to MaxAnon in the body of its nested object n.  An entry  *)
(* holds the line 'a 1' or the line 'b 2'.                                 *)
(***************************************************************************)
MaxAnon == 2

EntryKinds == {<<"a", "1">>, <<"b", "2">>}

EntryLists == UNION {[1..n -> EntryKinds] : n \in 0..MaxAnon}

AnonCases == [outer : EntryLists, inner : EntryLists, sibling : BOOLEAN]

Indent(n) == [i \in 1..n |-> " "]

\* the anonymous entry of a kind, its opening line indented by n spaces
AnonEntry(kind, n) ==
    << Indent(n) \o <<"{">>,
       Indent(n + 4) \o <<kind[1], " ", kind[2]>>,
       Indent(n) \o <<"}">> >>

AnonTextOf(case) ==
    << <<"l", "t", "m", " ", "p", "o", "o", "l", " ", "/", "C", "/", "p", " ", "{">> >>
    \o (IF case.sibling THEN << <<" ", " ", " ", " ", "s", " ", "1">> >> ELSE <<>>)
    \o Flatten([i \in 1..Len(case.outer) |-> AnonEntry(case.outer[i], 4)])
    \o << <<" ", " ", " ", " ", "n", " ", "{">> >>
    \o Flatten([i \in 1..Len(case.inner) |-> AnonEntry(case.inner[i], 8)])
    \o << <<" ", " ", " ", " ", "}">>, <<"}">> >>

AnonInit ==
    /\ \E case \in AnonCases : text = AnonTextOf(case)
    /\ parsed = <<>>
    /\ configObject = <<>>
    /\ IdleDig
    /\ IdleLoad
    /\ IdleCall

AnonSpec == AnonInit /\ [][ParseNext]_vars

AnonCase == CHOOSE case \in AnonCases : text = AnonTextOf(case)

\* the keys of a body other than those of its named entries
AnonKeys(body, named) ==
    {body[1].m[i].k : i \in 1..Len(body[1].m)} \ named

\* the body at a path of the tree holds the entries of a list under the
\* keys 0 .. n-1, the k-th entry under k, and no other anonymous key
StoredByIndex(path, entries, named) ==
    LET body == Lookup(parsed[1].tree, path)
    IN  /\ body # <<>>
        /\ IsMap(body[1])
        /\ AnonKeys(body, named) = {NatToStr(k - 1) : k \in 1..Len(entries)}
        /\ \A k \in 1..Len(entries) :
              LET entry == Lookup(parsed[1].tree, path \o <<NatToStr(k - 1)>>)
              IN  /\ entry # <<>>
                  /\ IsMap(entry[1])
                  /\ Has(entry[1].m, <<entries[k][1]>>)
                  /\ Get(entry[1].m, <<entries[k][1]>>) = VStr(<<entries[k][2]>>)

\* C27: within any object body, the k-th anonymous nested entry, counting
\* from zero in order of occurrence, is stored under the key k: n anonymous
\* entries of one body yield exactly the keys 0 .. n-1 and none overwrites
\* another.
C27_AnonymousEntriesIndexed ==
    parsed # <<>> =>
        /\ parsed[1].ok
        /\ StoredByIndex(<<K_ltm, K_pool, <<"/", "C", "/", "p">>, <<"n">>>>, AnonCase.inner, {K_line})
        /\ StoredByIndex(<<K_ltm, K_pool, <<"/", "C", "/", "p">>>>, AnonCase.outer,
                         {K_line, K_partition, K_name, <<"n">>, <<"s">>})


(***************************************************************************)
(* loadParseAsync(file), ltm.ts lines 132-195.  The unpacker emits a       *)
(* 'conf' event for every file and then fulfils the promise of             *)
(* stream(file), with the list of files (an archive) or with nothing (a    *)
(* single .conf file).  Promise jobs run one at a time, in the order they  *)
(* were queued.                                                            *)
(***************************************************************************)
SourceHost ==
    [fileName |-> <<"h", ".", "c", "o", "n", "f">>,
     content |-> << <<"#", "T", "M", "S", "H", "-", "V", "E", "R", "S", "I", "O", "N", ":", " ", "1", "5">>, <<"s", "y", "s", " ", "g", "l", "o", "b", "a", "l", "-", "s", "e", "t", "t", "i", "n", "g", "s", " ", "{">>,
                    <<" ", " ", " ", " ", "h", "o", "s", "t", "n", "a", "m", "e", " ", "h">>, <<"}">> >>]

AwaitSources == {SourceHost, SourceA, SourceB, SourceBroken}

AwaitFileLists ==
    {fs \in UNION {[1..n -> AwaitSources] : n \in 1..MaxSources} :
        \A i, j \in 1..Len(fs) : fs[i] = fs[j] => i = j}

\* getHostname(configObject): <<>> for undefined
getHostname(configTree) ==
    With(Lookup(configTree, << <<"s", "y", "s">>, <<"g", "l", "o", "b", "a", "l", "-", "s", "e", "t", "t", "i", "n", "g", "s">>, <<"h", "o", "s", "t", "n", "a", "m", "e">> >>), LAMBDA found :
    IF found # <<>> /\ Truthy(found[1]) THEN <<found[1]>> ELSE <<>>)

AwaitInit ==
    /\ files \in AwaitFileLists
    /\ listed \in BOOLEAN
    /\ delivered = 0
    /\ awaiting = <<>>
    /\ rx = FALSE
    /\ attempted = <<>>
    /\ merged = <<>>
    /\ tmosVersion = <<>>
    /\ jobs = <<>>
    /\ phase = "stream"
    /\ hostname = <<>>
    /\ configObject = EmptyMap
    /\ text = <<>>
    /\ parsed = <<>>
    /\ IdleDig
    /\ IdleCall

\* lines 155-156: every file has been read and the promise of stream(file)
\* is fulfilled; the job of its then callback is queued
StreamResolves ==
    /\ phase = "stream"
    /\ delivered = Len(files)
    /\ phase' = "then"
    /\ jobs' = Enqueue(jobs, "then")
    /\ UNCHANGED <<parseVars, digVars, callVars, configObject, files, delivered, awaiting, rx,
                   attempted, merged, tmosVersion, listed, hostname>>

\* lines 156-170: the then callback.  With a list of files it awaits
\* Promise.all(parseConfPromises); without one it returns at once
RunThen ==
    /\ jobs # <<>> /\ Head(jobs) = "then"
    /\ IF listed
       THEN phase' = "all" /\ jobs' = Tail(jobs)
       ELSE phase' = "stats" /\ jobs' = Enqueue(Tail(jobs), "stats")
    /\ UNCHANGED <<parseVars, digVars, callVars, configObject, files, delivered, awaiting, rx,
                   attempted, merged, tmosVersion, listed, hostname>>

\* lines 164-167: every promise of parseConfPromises is settled; the
\* callback goes on to parseExtras and returns
AllSettled ==
    /\ phase = "all"
    /\ awaiting = <<>>
    /\ phase' = "stats"
    /\ jobs' = Enqueue(jobs, "stats")
    /\ UNCHANGED <<parseVars, digVars, callVars, configObject, files, delivered, awaiting, rx,
                   attempted, merged, tmosVersion, listed, hostname>>

\* line 173: await Promise.all(parseStatPromises), of no stat file
RunStats ==
    /\ jobs # <<>> /\ Head(jobs) = "stats"
    /\ phase' = "finish"
    /\ jobs' = Enqueue(Tail(jobs), "finish")
    /\ UNCHANGED <<parseVars, digVars, callVars, configObject, files, delivered, awaiting, rx,
                   attempted, merged, tmosVersion, listed, hostname>>

\* lines 183-194: the object counts and the hostname are taken from
\* configObject and the promise of loadParseAsync is fulfilled
Finish ==
    /\ jobs # <<>> /\ Head(jobs) = "finish"
    /\ jobs' = Tail(jobs)
    /\ hostname' = <<getHostname(configObject)>>
    /\ phase' = "done"
    /\ UNCHANGED <<parseVars, digVars, callVars, configObject, files, delivered, awaiting, rx,
                   attempted, merged, tmosVersion, listed>>

AwaitNext ==
    \/ ParseConf
    \/ ResumeParseConf
    \/ StreamResolves
    \/ RunThen
    \/ AllSettled
    \/ RunStats
    \/ Finish

AwaitSpec == AwaitInit /\ [][AwaitNext]_vars

\* the files parseConf does not stash away
Parsable == {i \in 1..Len(files) : ~(files[i].fileName \in
                {<<"c", "o", "n", "f", "i", "g", "/", "p", "r", "o", "f", "i", "l", "e", "_", "b", "a", "s", "e", ".", "c", "o", "n", "f">>, <<"c", "o", "n", "f", "i", "g", "/", "l", "o", "w", "_", "p", "r", "o", "f", "i", "l", "e", "_", "b", "a", "s", "e", ".", "c", "o", "n", "f">>})}

\* C28: loadParseAsync computes stats.objects and the hostname, and
\* resolves, only after every parseConf call started by a 'conf' event has
\* completed (merged or failed), also when the unpacker resolves without a
\* list of files: what it reads is the tree of all the sources.
C28_ResolvesAfterEveryParseConf ==
    phase = "done" =>
        /\ AllCompleted
        /\ {attempted[i] : i \in 1..Len(attempted)} = Parsable
        /\ hostname = <<getHostname(MergedInto(EmptyMap, Parsing(attempted)))>>

\* a single .conf file, resolved without a list of files: its parseConf
\* call was suspended and has completed, and the hostname is the one of
\* that file
C28_Witness ==
    /\ phase = "done"
    /\ ~listed
    /\ files = <<SourceHost>>
    /\ attempted = <<1>>
    /\ hostname = << <<VStr(<<"h">>)>> >>

\* the first file parseConf does not stash away
FirstParsable == CHOOSE i \in Parsable : \A j \in Parsable : i <= j

RECURSIVE StoredTitles(_, _)
StoredTitles(m, prefix) ==
    UNION { IF StartsWith(m[i].k, <<"/">>)
            THEN {Join(prefix \o <<m[i].k>>, <<" ">>)}
            ELSE IF IsMap(m[i].v) THEN StoredTitles(m[i].v.m, prefix \o <<m[i].k>>)
            ELSE {}
          : i \in 1..Len(m) }

\* C30: every fragment of the lines of a bundle begins with the
\* declaration title (category, subtypes, fully qualified name) of an object
\* as it is stored in the ConfigTree, followed by its braced body.
C30_FragmentsCarryStoredTitle ==
    extracted # <<>> =>
        \A i \in 1..Len(extracted[1]) :
            \A j \in 1..Len(Get(extracted[1][i].m, K_lines).a) :
                \E title \in StoredTitles(configObject.m, <<>>) :
                    /\ StartsWith(Get(extracted[1][i].m, K_lines).a[j], title \o <<" ", "{">>)
                    /\ EndsWith(Get(extracted[1][i].m, K_lines).a[j], <<"}">>)
=============================================================================
